---- MODULE Spec2Model ----
(***************************************************************************)
(* Model of the mark2 mind-map core: the two viewport controllers          *)
(* (organisms/MindMap and utils/mindMapRenderer), the layouts that feed    *)
(* their fit-to-content routines, and the markdown parser                   *)
(* (utils/markdownParser).                                                  *)
(*                                                                         *)
(* Numbers.  JavaScript numbers are modelled in fixed point:                *)
(*   - a scale s is the integer s * One (One = 1000, so 0.1 is 100);        *)
(*   - a pan offset p (pixels) is the integer p * PanOne, PanOne = 2 * One, *)
(*     which keeps "W/2 - centre * scale" exact;                            *)
(*   - node coordinates are whole pixels;                                   *)
(*   - angles are whole multiples of pi/60 (3 degrees).                     *)
(* A product or quotient that is not a whole number of units is rounded     *)
(* down (\div), where the program rounds to the nearest double.             *)
(***************************************************************************)
EXTENDS Integers, Sequences, FiniteSets, TLC

VARIABLES
    impl,        \* which controller class this behaviour follows
    phase,       \* "new" (constructed), "rendered" (SVG group exists), "destroyed"
    scale,       \* MindMap.scale / MindMapRenderer.zoom
    panX,        \* MindMap.translateX / MindMapRenderer.panX
    panY,        \* MindMap.translateY / MindMapRenderer.panY
    isDragging,  \* the Panning flag
    lastPos,     \* lastPointerPosition / lastMousePos, <<clientX, clientY>>
    nodes,       \* the laid-out nodes (MindMap.nodes / MindMapRenderer.nodes)
    connections, \* the connections produced with them
    container,   \* <<width, height>> of viewBox.baseVal / getBoundingClientRect()
    listeners,   \* how many times the container's listeners were installed
    fault,       \* TRUE when the last call raised an exception
    lastOp,      \* history: the last operation or event
    run,         \* history: how many times lastOp was repeated in a row
    runFrom,     \* history: the scale at the start of that run
    steps,       \* number of budgeted operations so far
    markdown,    \* parser input
    parsed,      \* parser result
    layout,      \* App.currentMindMapData: what generateLayout returned
    drawn,       \* the <line> elements in the SVG group, in document order
    app,         \* Mark2App: currentMarkdown, generateTimeout, the timers of
                 \* the event loop, whether destroy() ran, the generations run
    theme,       \* ThemeManager (LanguageManager has the same code): the
                 \* current value, the subscribers, what the last call notified
    editor       \* TextEditor: value, lastSavedValue, isDirty, its elements,
                 \* its timers and the stored content

vars == <<impl, phase, scale, panX, panY, isDragging, lastPos, nodes, connections,
          container, listeners, fault, lastOp, run, runFrom, steps, markdown, parsed,
          layout, drawn, app, theme, editor>>

viewVars == <<impl, phase, scale, panX, panY, isDragging, lastPos, nodes, connections,
              container, listeners, fault>>

parseVars == <<markdown, parsed, layout>>

\* the state of the page around the mind map
sideVars == <<app, theme, editor>>

------------------------------------------------------------------------------
(* Bounds of the model *)

MaxSteps == 4
MaxSections == 2
DeepHashes == 60
ZoomCalls == 19
MaxWheels == 1
MaxLen == 5
MaxLines == 3
MaxBody == 4

------------------------------------------------------------------------------
(* Fixed point *)

One == 1000

PanOne == 2 * One

Min2(a, b) == IF a <= b THEN a ELSE b

Max2(a, b) == IF a >= b THEN a ELSE b

SetMin(S) == CHOOSE v \in S : \A w \in S : v <= w

SetMax(S) == CHOOSE v \in S : \A w \in S : v >= w

\* x * num / den, rounded to the nearest unit
MulRound(x, num, den) == (2 * x * num + den) \div (2 * den)

\* cos(k * 3 degrees) * One for k = 0..30
CosTable == <<1000, 999, 995, 988, 978, 966, 951, 934, 914, 891, 866, 839, 809, 777,
              743, 707, 669, 629, 588, 545, 500, 454, 407, 358, 309, 259, 208, 156,
              105, 52, 0>>

\* Math.cos of an angle given in units of pi/60, times One
Cos(a) ==
    LET r == a % 120
    IN  IF r <= 30 THEN CosTable[r + 1]
        ELSE IF r <= 60 THEN 0 - CosTable[(60 - r) + 1]
        ELSE IF r <= 90 THEN 0 - CosTable[(r - 60) + 1]
        ELSE CosTable[(120 - r) + 1]

\* Math.sin of an angle given in units of pi/60, times One
Sin(a) == Cos(a + 90)

------------------------------------------------------------------------------
(* organisms/MindMap: configuration *)

MM_nodeWidth == 160
MM_nodeHeight == 40
MM_levelSpacing == 280
MM_siblingSpacing == 80
MM_minZoom == 100
MM_maxZoom == 3000
MM_padding == 50
MM_viewBoxWidth == 1200
MM_viewBoxHeight == 800

(* utils/mindMapRenderer: configuration *)

MR_nodeWidth == 180
MR_nodeHeight == 60
MR_levelSpacing == 280
MR_vertical == 120
MR_horizontal == 500
MR_bulletThreshold == 2
MR_centerX == 600
MR_centerY == 400
MR_wheelMin == 100
MR_zoomMax == 3000
MR_zoomOutMin == 200
MR_fitMin == 300
MR_fitMax == 2000

------------------------------------------------------------------------------
(* organisms/MindMap: parseMarkdown and calculateLayout.                    *)
(* A document is the sequence of its non-blank lines; a line is             *)
(*   [kind |-> "hash", n |-> number of leading #, text |-> whether anything *)
(*    follows the # run],                                                    *)
(*   [kind |-> "list", n |-> number of leading spaces]   (a - or * line),    *)
(*   [kind |-> "text", n |-> 0]                           (anything else).    *)

Null == <<>>

HashLine(n) == [kind |-> "hash", n |-> n, text |-> TRUE]

ListLine(indent) == [kind |-> "list", n |-> indent, text |-> TRUE]

TextLine == [kind |-> "text", n |-> 0, text |-> TRUE]

\* the level parseMarkdown gives a line: /^(#+)\s*(.+)/ needs one character
\* after the # run, which it takes from the run itself when nothing follows
MM_lineLevel(line) ==
    IF line.kind = "hash"
    THEN IF line.text THEN line.n - 1
         ELSE IF line.n >= 2 THEN line.n - 2 ELSE 0
    ELSE IF line.kind = "list" THEN 3 + (line.n \div 2)
    ELSE 0

MM_createEmptyState ==
    [nodes |-> << [id |-> <<"empty-node">>, level |-> 0, parent |-> Null] >>,
     connections |-> <<>>]

\* one turn of the nodeStack loop, for line i; acc is [stack, nodes, connections]
MM_hierarchyStep(lines, i, acc) ==
    LET level  == MM_lineLevel(lines[i])
        id     == <<"node", i - 1>>
        popped == IF Len(acc.stack) > level + 1
                  THEN SubSeq(acc.stack, 1, level + 1)
                  ELSE acc.stack
        parent == popped[Len(popped)]
        node   == [id |-> id, level |-> level, parent |-> parent]
    IN  [stack |-> Append(popped, id),
         nodes |-> Append(acc.nodes, node),
         connections |->
             IF parent # Null
             THEN Append(acc.connections, [source |-> parent, target |-> id])
             ELSE acc.connections]

\* the loop over lines i, i+1, ...
RECURSIVE MM_buildHierarchy(_, _, _)
MM_buildHierarchy(lines, i, acc) ==
    IF i > Len(lines) THEN acc
    ELSE MM_buildHierarchy(lines, i + 1, MM_hierarchyStep(lines, i, acc))

MM_parseMarkdown(lines) ==
    IF Len(lines) = 0 THEN MM_createEmptyState
    ELSE LET r == MM_buildHierarchy(lines, 1,
                      [stack |-> <<Null>>, nodes |-> <<>>, connections |-> <<>>])
         IN  [nodes |-> r.nodes, connections |-> r.connections]

MM_levelY(l) ==
    IF l = 0 THEN 100
    ELSE IF l = 1 THEN 100 + MM_levelSpacing
    ELSE IF l = 2 THEN 100 + 2 * MM_levelSpacing
    ELSE 100 + 2 * MM_levelSpacing + (MM_levelSpacing * 8) \div 10
             + (l - 3) * ((MM_levelSpacing * 5) \div 10)

MM_calculateLayout(ns) ==
    [i \in 1..Len(ns) |->
        LET level == ns[i].level
            count == Cardinality({j \in 1..Len(ns) : ns[j].level = level})
            index == Cardinality({j \in 1..(i - 1) : ns[j].level = level})
            totalWidth == (count - 1) * MM_siblingSpacing
            startX == 600 - totalWidth \div 2
        IN  [id |-> ns[i].id, level |-> level, parent |-> ns[i].parent,
             x |-> startX + index * MM_siblingSpacing, y |-> MM_levelY(level)]]

\* the bounding box fitToContent folds over the nodes: every node is
\* nodeWidth x nodeHeight
RECURSIVE MM_bounds(_, _, _)
MM_bounds(ns, i, b) ==
    IF i > Len(ns) THEN b
    ELSE MM_bounds(ns, i + 1,
            [minX |-> Min2(b.minX, ns[i].x - MM_nodeWidth \div 2),
             maxX |-> Max2(b.maxX, ns[i].x + MM_nodeWidth \div 2),
             minY |-> Min2(b.minY, ns[i].y - MM_nodeHeight \div 2),
             maxY |-> Max2(b.maxY, ns[i].y + MM_nodeHeight \div 2)])

\* Math.min(Infinity, v) = v: the fold starts from the first node's rectangle
MM_contentBounds(ns) ==
    MM_bounds(ns, 2, [minX |-> ns[1].x - MM_nodeWidth \div 2,
                      maxX |-> ns[1].x + MM_nodeWidth \div 2,
                      minY |-> ns[1].y - MM_nodeHeight \div 2,
                      maxY |-> ns[1].y + MM_nodeHeight \div 2])

\* Math.min(scaleX, scaleY, 1)
MM_fitScale(ns, box) ==
    LET b == MM_contentBounds(ns)
        contentWidth == b.maxX - b.minX + MM_padding * 2
        contentHeight == b.maxY - b.minY + MM_padding * 2
        scaleX == (box[1] * One) \div contentWidth
        scaleY == (box[2] * One) \div contentHeight
    IN  Min2(Min2(scaleX, scaleY), One)

\* viewBox.width / 2 - centerX * scale, in pan units
MM_fitPan(extent, lo, hi, s) == extent * One - (lo + hi) * s

------------------------------------------------------------------------------
(* utils/mindMapRenderer: processData and fitToView.                        *)
(* The data rendered is what parseMarkdown returns:                          *)
(*   [sections |-> <<[items |-> <<text, ..>>,                                *)
(*                    subsections |-> <<[items |-> <<text, ..>>], ..>>], ..>>] *)
(* or NoData (null).                                                         *)

NoData == [none |-> TRUE]

\* !data || !data.sections
MR_noSections(data) == "none" \in DOMAIN data

\* x + Math.cos(angle) * radius, to the nearest pixel
PolarX(x, angle, radius) == x + MulRound(Cos(angle), radius, One)

PolarY(y, angle, radius) == y + MulRound(Sin(angle), radius, One)

MR_node(id, type, x, y, wTenths, hTenths, parentId) ==
    [id |-> id, type |-> type, x |-> x, y |-> y,
     width |-> (MR_nodeWidth * wTenths) \div 10,
     height |-> (MR_nodeHeight * hTenths) \div 10,
     parentId |-> parentId]

MR_conn_allSecondary(from, to, type) == [from |-> from, to |-> to, type |-> "secondary"]

MR_conn(from, to, type) == [from |-> from, to |-> to, type |-> type]

\* both lists grow together: an Out is [nodes, connections]
MR_push(out, node, conn) ==
    [nodes |-> Append(out.nodes, node), connections |-> Append(out.connections, conn)]

RECURSIVE MR_subsectionBullets(_, _, _, _, _, _, _, _)
MR_subsectionBullets(out, items, k, sx, sy, subAngle, si, subIndex) ==
    IF k > Len(items) THEN out
    ELSE LET bulletRadius == (MR_levelSpacing * 8) \div 10
             bulletAngleStep == 36 \div Max2(1, Len(items) - 1)
             bulletStartAngle == subAngle - 18
             bulletAngle == bulletStartAngle + (k - 1) * bulletAngleStep
             id == <<"bullet", si, subIndex, k - 1>>
             parent == <<"subsection", si, subIndex>>
         IN  MR_subsectionBullets(
                 MR_push(out,
                     MR_node(id, "subitem", PolarX(sx, bulletAngle, bulletRadius),
                             PolarY(sy, bulletAngle, bulletRadius), 8, 7, parent),
                     MR_conn(parent, id, "tertiary")),
                 items, k + 1, sx, sy, subAngle, si, subIndex)

RECURSIVE MR_layoutSubsectionsAsIntermediateLevel(_, _, _, _, _, _, _)
MR_layoutSubsectionsAsIntermediateLevel(out, subs, j, sectionX, sectionY, sectionAngle, si) ==
    IF j > Len(subs) THEN out
    ELSE LET intermediateRadius == (MR_levelSpacing * 12) \div 10
             subsectionAngleStep == 48 \div Max2(1, Len(subs) - 1)
             startAngle == sectionAngle - 24
             subsectionAngle == startAngle + (j - 1) * subsectionAngleStep
             subX == PolarX(sectionX, subsectionAngle, intermediateRadius)
             subY == PolarY(sectionY, subsectionAngle, intermediateRadius)
             id == <<"subsection", si, j - 1>>
             parent == <<"section", si>>
             withSub == MR_push(out,
                            MR_node(id, "subsection", subX, subY, 9, 8, parent),
                            MR_conn(parent, id, "secondary"))
         IN  MR_layoutSubsectionsAsIntermediateLevel(
                 MR_subsectionBullets(withSub, subs[j].items, 1, subX, subY,
                                      subsectionAngle, si, j - 1),
                 subs, j + 1, sectionX, sectionY, sectionAngle, si)

\* a column that is always to the right of the section
verticalSide_right(sectionAngle) == 1

\* sectionAngle > Math.PI ? -1 : 1
verticalSide(sectionAngle) == IF sectionAngle > 60 THEN 0 - 1 ELSE 1

RECURSIVE MR_layoutBulletsVertically(_, _, _, _, _, _, _)
MR_layoutBulletsVertically(out, items, k, sectionX, sectionY, sectionAngle, si) ==
    IF k > Len(items) THEN out
    ELSE LET side == verticalSide(sectionAngle)
             startY == sectionY - ((Len(items) - 1) * MR_vertical) \div 2
             id == <<"item", si, k - 1>>
             parent == <<"section", si>>
         IN  MR_layoutBulletsVertically(
                 MR_push(out,
                     MR_node(id, "item", sectionX + MR_horizontal * side,
                             startY + (k - 1) * MR_vertical, 8, 8, parent),
                     MR_conn(parent, id, "secondary")),
                 items, k + 1, sectionX, sectionY, sectionAngle, si)

\* called with bullet items only, fewer than bulletThreshold of them; 84 is
\* 1.4 pi and 10 the minimum step of 0.5 rad, in units of pi/60
RECURSIVE MR_layoutItemsRadially(_, _, _, _, _, _, _)
MR_layoutItemsRadially(out, items, k, sectionX, sectionY, sectionAngle, si) ==
    IF k > Len(items) THEN out
    ELSE LET itemRadius == (MR_levelSpacing * 28) \div 10
             itemAngleStep == Max2(84 \div Max2(Len(items), 1), 10)
             actualSpan == Min2(84, itemAngleStep * (Len(items) - 1))
             baseAngle == sectionAngle - actualSpan \div 2
             itemAngle == baseAngle + (k - 1) * itemAngleStep
             id == <<"item", si, k - 1>>
             parent == <<"section", si>>
         IN  MR_layoutItemsRadially(
                 MR_push(out,
                     MR_node(id, "item", PolarX(sectionX, itemAngle, itemRadius),
                             PolarY(sectionY, itemAngle, itemRadius), 8, 8, parent),
                     MR_conn(parent, id, "secondary")),
                 items, k + 1, sectionX, sectionY, sectionAngle, si)

\* a threshold the count has to exceed
useVerticalForBullets_above(bulletItems) == Len(bulletItems) > MR_bulletThreshold

\* bulletItems.length >= this.config.layout.bulletThreshold
useVerticalForBullets(bulletItems) == Len(bulletItems) >= MR_bulletThreshold

RECURSIVE MR_sections(_, _, _)
MR_sections(out, secs, i) ==
    IF i > Len(secs) THEN out
    ELSE LET angleStep == 120 \div Len(secs)
             radius == MR_levelSpacing * 2
             angle == (i - 1) * angleStep
             sectionX == PolarX(MR_centerX, angle, radius)
             sectionY == PolarY(MR_centerY, angle, radius)
             id == <<"section", i - 1>>
             withSection == MR_push(out,
                                MR_node(id, "section", sectionX, sectionY, 10, 10,
                                        <<"root">>),
                                MR_conn(<<"root">>, id, "primary"))
             withSubs == IF Len(secs[i].subsections) > 0
                         THEN MR_layoutSubsectionsAsIntermediateLevel(withSection,
                                  secs[i].subsections, 1, sectionX, sectionY, angle,
                                  i - 1)
                         ELSE withSection
             bullets == secs[i].items
             withBullets ==
                 IF Len(bullets) = 0 THEN withSubs
                 ELSE IF useVerticalForBullets(bullets)
                 THEN MR_layoutBulletsVertically(withSubs, bullets, 1, sectionX,
                                                 sectionY, angle, i - 1)
                 ELSE MR_layoutItemsRadially(withSubs, bullets, 1, sectionX,
                                             sectionY, angle, i - 1)
         IN  MR_sections(withBullets, secs, i + 1)

\* a processData that does not empty this.nodes and this.connections first
MR_processData_keeping(data) ==
    IF MR_noSections(data) THEN [nodes |-> nodes, connections |-> connections]
    ELSE MR_sections(
             [nodes |-> Append(nodes, MR_node(<<"root">>, "root", MR_centerX,
                                              MR_centerY, 12, 12, Null)),
              connections |-> connections],
             data.sections, 1)

MR_processData(data) ==
    IF MR_noSections(data) THEN [nodes |-> <<>>, connections |-> <<>>]
    ELSE MR_sections(
             [nodes |-> << MR_node(<<"root">>, "root", MR_centerX, MR_centerY,
                                   12, 12, Null) >>,
              connections |-> <<>>],
             data.sections, 1)

\* the bounding box fitToView folds over the nodes
RECURSIVE MR_bounds(_, _, _)
MR_bounds(ns, i, b) ==
    IF i > Len(ns) THEN b
    ELSE MR_bounds(ns, i + 1,
            [minX |-> Min2(b.minX, ns[i].x - ns[i].width \div 2),
             maxX |-> Max2(b.maxX, ns[i].x + ns[i].width \div 2),
             minY |-> Min2(b.minY, ns[i].y - ns[i].height \div 2),
             maxY |-> Max2(b.maxY, ns[i].y + ns[i].height \div 2)])

\* the bounding box of the node rectangles, widened by 0.8 of a node on each side
MR_contentBounds(ns) ==
    LET b == MR_bounds(ns, 2,
                       [minX |-> ns[1].x - ns[1].width \div 2,
                        maxX |-> ns[1].x + ns[1].width \div 2,
                        minY |-> ns[1].y - ns[1].height \div 2,
                        maxY |-> ns[1].y + ns[1].height \div 2])
        marginX == (MR_nodeWidth * 8) \div 10
        marginY == (MR_nodeHeight * 8) \div 10
    IN  [minX |-> b.minX - marginX, maxX |-> b.maxX + marginX,
         minY |-> b.minY - marginY, maxY |-> b.maxY + marginY]

\* Math.max(0.3, Math.min(scaleX, scaleY, 2) * 0.95)
MR_fitScale(ns, box) ==
    LET b == MR_contentBounds(ns)
        scaleX == (box[1] * One) \div (b.maxX - b.minX)
        scaleY == (box[2] * One) \div (b.maxY - b.minY)
    IN  Max2(MR_fitMin, (Min2(Min2(scaleX, scaleY), MR_fitMax) * 95) \div 100)

\* a fitToView that centres as if the zoom were 1
MR_fitPan_unscaled(extent, lo, hi, s) == extent * One - (lo + hi) * One

\* containerRect.width / 2 - centerX * zoom, in pan units
MR_fitPan(extent, lo, hi, s) == extent * One - (lo + hi) * s

------------------------------------------------------------------------------
(* Inputs *)

MindMap == "MindMap"

MindMapRenderer == "MindMapRenderer"

Texts(k) == [i \in 1..k |-> "t"]

\* "# T", s lines "## S", b lines "- x"
MMDoc(s, b) == <<HashLine(1)>> \o [i \in 1..s |-> HashLine(2)]
                               \o [i \in 1..b |-> ListLine(0)]

\* "# T" and one line of h # characters and a text
MMDeepDoc(h) == <<HashLine(1), HashLine(h)>>

\* "# T", a line of prose, "## S", "- x"
MMProseDoc == <<HashLine(1), TextLine, HashLine(2), ListLine(0)>>

\* the number in an id that no generated node has
MissingNode == 99

MMDocs == {<<>>, MMDeepDoc(DeepHashes), MMDoc(MaxSections, 2), MMProseDoc}

\* n sections, each with b direct bullets and m subsections of one bullet
MRData(n, b, m) ==
    [sections |-> [i \in 1..n |->
        [items |-> Texts(b),
         subsections |-> [j \in 1..m |-> [items |-> Texts(1)]]]]]

MRDatas ==
    {MRData(0, 0, 0), MRData(1, 1, 0), MRData(MaxSections, 2, 1),
     MRData(MaxSections + 1, 2, 0)}

ContainerSizes == {<<1200, 800>>, <<600, 300>>}

PointerPositions == {<<100, 100>>, <<150, 130>>}

Targets == {"canvas", "node"}

WheelDeltas == {0 - 100, 100}

------------------------------------------------------------------------------
(* organisms/MindMap: the viewport operations.  updateTransform() writes to *)
(* groupElement, which exists only once render() has run: before that the   *)
(* call raises a TypeError after the fields were assigned.                   *)

MM_updateTransform == fault' = (phase # "rendered")

MM_render ==
    /\ impl = MindMap
    /\ phase' = "rendered"
    /\ drawn' = <<>>
    /\ fault' = FALSE
    /\ UNCHANGED <<impl, scale, panX, panY, isDragging, lastPos, nodes, connections,
                   container, listeners>>

\* a zoomIn that multiplies without clamping to maxZoom
MM_zoomInScale_unclamped(s) == (s * 12) \div 10

\* Math.min(maxZoom, scale * 1.2)
MM_zoomInScale(s) == Min2(MM_maxZoom, (s * 12) \div 10)

\* Math.max(minZoom, scale / 1.2)
MM_zoomOutScale(s) == Max2(MM_minZoom, (s * 10) \div 12)

MM_zoomIn ==
    /\ impl = MindMap
    /\ scale' = MM_zoomInScale(scale)
    /\ MM_updateTransform
    /\ UNCHANGED <<impl, phase, panX, panY, isDragging, lastPos, nodes, connections,
                   container, listeners>>

MM_zoomOut ==
    /\ impl = MindMap
    /\ scale' = MM_zoomOutScale(scale)
    /\ MM_updateTransform
    /\ UNCHANGED <<impl, phase, panX, panY, isDragging, lastPos, nodes, connections,
                   container, listeners>>

MM_resetView ==
    /\ impl = MindMap
    /\ scale' = One
    /\ panX' = 0
    /\ panY' = 0
    /\ MM_updateTransform
    /\ UNCHANGED <<impl, phase, isDragging, lastPos, nodes, connections, container,
                   listeners>>

\* a fitToContent that falls back to the default view when there are no nodes
MM_fit_resetOnEmpty(ns) ==
    IF Len(ns) = 0
    THEN /\ scale' = One
         /\ panX' = 0
         /\ panY' = 0
         /\ MM_updateTransform
    ELSE LET b == MM_contentBounds(ns)
             s == MM_fitScale(ns, container)
         IN  /\ scale' = s
             /\ panX' = MM_fitPan(container[1], b.minX, b.maxX, s)
             /\ panY' = MM_fitPan(container[2], b.minY, b.maxY, s)
             /\ MM_updateTransform

\* the assignments of fitToContent to scale and pan for node list ns
MM_fit(ns) ==
    IF Len(ns) = 0
    THEN /\ UNCHANGED <<scale, panX, panY>>
         /\ fault' = FALSE
    ELSE LET b == MM_contentBounds(ns)
             s == MM_fitScale(ns, container)
         IN  /\ scale' = s
             /\ panX' = MM_fitPan(container[1], b.minX, b.maxX, s)
             /\ panY' = MM_fitPan(container[2], b.minY, b.maxY, s)
             /\ MM_updateTransform

MM_fitToContent ==
    /\ impl = MindMap
    /\ MM_fit(nodes)
    /\ UNCHANGED <<impl, phase, isDragging, lastPos, nodes, connections, container,
                   listeners>>

\* this.nodes.has(id)
HasNode(ns, id) == \E i \in DOMAIN ns : ns[i].id = id

NoLine == [none |-> TRUE]

\* null when an endpoint is not among the nodes, else the <line> element
MM_createConnectionElement(ns, connection) ==
    IF ~HasNode(ns, connection.source) \/ ~HasNode(ns, connection.target)
    THEN NoLine
    ELSE [source |-> connection.source, target |-> connection.target]

\* the forEach of renderConnections from connection k on: every line goes in
\* front of the group's first child; insertBefore(null, ..) throws a TypeError,
\* which ends the loop
RECURSIVE MM_insertLines(_, _, _, _)
MM_insertLines(ns, conns, k, group) ==
    IF k > Len(conns) THEN [group |-> group, thrown |-> FALSE]
    ELSE LET line == MM_createConnectionElement(ns, conns[k])
         IN  IF line = NoLine THEN [group |-> group, thrown |-> TRUE]
             ELSE MM_insertLines(ns, conns, k + 1, <<line>> \o group)

\* renderConnections(connections) called on its own
MM_renderConnections(conns) ==
    /\ impl = MindMap
    /\ IF phase # "rendered"
       THEN /\ fault' = (Len(conns) > 0)
            /\ connections' = IF Len(conns) > 0 THEN connections ELSE conns
            /\ UNCHANGED drawn
       ELSE LET r == MM_insertLines(nodes, conns, 1, drawn)
            IN  /\ drawn' = r.group
                /\ fault' = r.thrown
                /\ connections' = IF r.thrown THEN connections ELSE conns
    /\ UNCHANGED <<impl, phase, scale, panX, panY, isDragging, lastPos, nodes,
                   container, listeners>>

\* clearMindMap() reads groupElement first: before render() it raises and
\* nothing changes; autoLayout is on by default, so fitToContent() follows
\* (the connections parseMarkdown returns join nodes it returns, so the
\* renderConnections call inside generateMindMap draws them all)
MM_generateMindMap(doc) ==
    /\ impl = MindMap
    /\ IF phase # "rendered"
       THEN /\ fault' = TRUE
            /\ UNCHANGED <<scale, panX, panY, nodes, connections, drawn>>
       ELSE LET p == MM_parseMarkdown(doc)
                positioned == MM_calculateLayout(p.nodes)
            IN  /\ nodes' = positioned
                /\ connections' = p.connections
                /\ drawn' = MM_insertLines(positioned, p.connections, 1, <<>>).group
                /\ MM_fit(positioned)
    /\ UNCHANGED <<impl, phase, isDragging, lastPos, container, listeners>>

\* destroy(): the element leaves the page, the node map is cleared and
\* element, svgElement and groupElement become null
MM_destroy ==
    /\ impl = MindMap
    /\ phase' = "destroyed"
    /\ nodes' = <<>>
    /\ connections' = <<>>
    /\ drawn' = <<>>
    /\ fault' = FALSE
    /\ UNCHANGED <<impl, scale, panX, panY, isDragging, lastPos, container, listeners>>

MM_handleWheel(deltaY) ==
    /\ impl = MindMap
    /\ phase = "rendered"
    /\ LET delta == 0 - deltaY
           newScale == Max2(MM_minZoom, Min2(MM_maxZoom, scale + delta))
       IN  scale' = newScale
    /\ fault' = FALSE
    /\ UNCHANGED <<impl, phase, panX, panY, isDragging, lastPos, nodes, connections,
                   container, listeners>>

\* the svg element's mousedown listener: it also receives the mousedown
\* events that bubble up from the node groups drawn inside it
MM_handlePointerStart(pos, target) ==
    /\ impl = MindMap
    /\ phase = "rendered"
    /\ isDragging' = TRUE
    /\ lastPos' = pos
    /\ fault' = FALSE
    /\ UNCHANGED <<impl, phase, scale, panX, panY, nodes, connections, container,
                   listeners>>

MM_handlePointerMove(pos) ==
    /\ impl = MindMap
    /\ phase = "rendered"
    /\ IF ~isDragging
       THEN UNCHANGED <<panX, panY, lastPos>>
       ELSE /\ panX' = panX + (pos[1] - lastPos[1]) * PanOne
            /\ panY' = panY + (pos[2] - lastPos[2]) * PanOne
            /\ lastPos' = pos
    /\ fault' = FALSE
    /\ UNCHANGED <<impl, phase, scale, isDragging, nodes, connections, container,
                   listeners>>

MM_handlePointerEnd ==
    /\ impl = MindMap
    /\ phase = "rendered"
    /\ isDragging' = FALSE
    /\ fault' = FALSE
    /\ UNCHANGED <<impl, phase, scale, panX, panY, lastPos, nodes, connections,
                   container, listeners>>

\* no mouseleave listener is registered on the svg element
MM_pointerLeave ==
    /\ impl = MindMap
    /\ phase = "rendered"
    /\ fault' = FALSE
    /\ UNCHANGED <<impl, phase, scale, panX, panY, isDragging, lastPos, nodes,
                   connections, container, listeners>>

------------------------------------------------------------------------------
(* utils/mindMapRenderer: the viewport operations.  updateTransform() writes *)
(* to mainGroup, which createSVG() sets during render(data).                 *)

MR_updateTransform == fault' = (phase # "rendered")

MR_zoomIn ==
    /\ impl = MindMapRenderer
    /\ scale' = Min2(MR_zoomMax, (scale * 12) \div 10)
    /\ MR_updateTransform
    /\ UNCHANGED <<impl, phase, panX, panY, isDragging, lastPos, nodes, connections,
                   container, listeners>>

MR_zoomOut ==
    /\ impl = MindMapRenderer
    /\ scale' = Max2(MR_zoomOutMin, (scale * 8) \div 10)
    /\ MR_updateTransform
    /\ UNCHANGED <<impl, phase, panX, panY, isDragging, lastPos, nodes, connections,
                   container, listeners>>

\* the assignments of fitToView to zoom and pan for node list ns
MR_fit(ns) ==
    IF Len(ns) = 0
    THEN /\ UNCHANGED <<scale, panX, panY>>
         /\ fault' = FALSE
    ELSE LET b == MR_contentBounds(ns)
             s == MR_fitScale(ns, container)
         IN  /\ scale' = s
             /\ panX' = MR_fitPan(container[1], b.minX, b.maxX, s)
             /\ panY' = MR_fitPan(container[2], b.minY, b.maxY, s)
             /\ fault' = FALSE

MR_fitToView ==
    /\ impl = MindMapRenderer
    /\ MR_fit(nodes)
    /\ UNCHANGED <<impl, phase, isDragging, lastPos, nodes, connections, container,
                   listeners>>

\* resetView() { this.fitToView() }
MR_resetView == MR_fitToView

\* render(data): createSVG, processData, renderNodes, renderConnections,
\* setupInteractivity (one more set of listeners on the container), fitToView
\* the forEach of renderConnections from connection k on: a connection with a
\* missing endpoint is passed over, every other line goes in front of the
\* group's first child
RECURSIVE MR_renderConnections(_, _, _, _)
MR_renderConnections(ns, conns, k, group) ==
    IF k > Len(conns) THEN group
    ELSE IF ~HasNode(ns, conns[k].from) \/ ~HasNode(ns, conns[k].to)
    THEN MR_renderConnections(ns, conns, k + 1, group)
    ELSE MR_renderConnections(ns, conns, k + 1,
             <<[from |-> conns[k].from, to |-> conns[k].to, type |-> conns[k].type]>>
                 \o group)

MR_render(data) ==
    /\ impl = MindMapRenderer
    /\ LET out == MR_processData(data)
       IN  /\ nodes' = out.nodes
           /\ connections' = out.connections
           /\ drawn' = MR_renderConnections(out.nodes, out.connections, 1, <<>>)
           /\ MR_fit(out.nodes)
    /\ phase' = "rendered"
    /\ listeners' = listeners + 1
    /\ UNCHANGED <<impl, isDragging, lastPos, container>>

\* one wheel listener: zoom * 0.9 when deltaY > 0, zoom * 1.1 otherwise
MR_wheelOnce(z, deltaY) ==
    LET num == IF deltaY > 0 THEN 9 ELSE 11
    IN  Max2(MR_wheelMin, Min2(MR_zoomMax, (z * num) \div 10))

RECURSIVE MR_wheelTimes(_, _, _)
MR_wheelTimes(z, deltaY, n) ==
    IF n = 0 THEN z ELSE MR_wheelTimes(MR_wheelOnce(z, deltaY), deltaY, n - 1)

\* a wheel event on the container runs every wheel listener installed on it
MR_wheel(deltaY) ==
    /\ impl = MindMapRenderer
    /\ listeners > 0
    /\ scale' = MR_wheelTimes(scale, deltaY, listeners)
    /\ fault' = FALSE
    /\ UNCHANGED <<impl, phase, panX, panY, isDragging, lastPos, nodes, connections,
                   container, listeners>>

MR_mousedown(pos, target) ==
    /\ impl = MindMapRenderer
    /\ listeners > 0
    /\ IF target = "canvas"
       THEN /\ isDragging' = TRUE
            /\ lastPos' = pos
       ELSE UNCHANGED <<isDragging, lastPos>>
    /\ fault' = FALSE
    /\ UNCHANGED <<impl, phase, scale, panX, panY, nodes, connections, container,
                   listeners>>

\* the first listener moves the pan and records the position; the delta the
\* later listeners of the same event compute is zero
MR_mousemove(pos) ==
    /\ impl = MindMapRenderer
    /\ listeners > 0
    /\ IF ~isDragging
       THEN UNCHANGED <<panX, panY, lastPos>>
       ELSE /\ panX' = panX + ((pos[1] - lastPos[1]) * PanOne * One) \div scale
            /\ panY' = panY + ((pos[2] - lastPos[2]) * PanOne * One) \div scale
            /\ lastPos' = pos
    /\ fault' = FALSE
    /\ UNCHANGED <<impl, phase, scale, isDragging, nodes, connections, container,
                   listeners>>

MR_mouseup ==
    /\ impl = MindMapRenderer
    /\ listeners > 0
    /\ isDragging' = FALSE
    /\ fault' = FALSE
    /\ UNCHANGED <<impl, phase, scale, panX, panY, lastPos, nodes, connections,
                   container, listeners>>

MR_mouseleave == MR_mouseup

------------------------------------------------------------------------------
(* markdownParser.js.  A text is a sequence of one-character strings; a      *)
(* JavaScript value that is not a string is the record NonString.  Character *)
(* offsets are 0-based as in the code, positions in a sequence 1-based.      *)

WhiteSpace == {" ", "\n", "\t"}

Digits == {"0", "1", "2", "3", "4", "5", "6", "7", "8", "9"}

Bullets == {"-", "*", "+"}

\* JavaScript null in an error field
null == "null"

NonString == [isString |-> FALSE, chars |-> <<>>]

\* String.prototype.trim
trim(s) ==
    LET idx == {i \in 1..Len(s) : s[i] \notin WhiteSpace}
    IN  IF idx = {} THEN <<>> ELSE SubSeq(s, SetMin(idx), SetMax(idx))

\* the positions at which ^ matches under the m flag, which are also the
\* starts of the pieces of split('\n')
LineStarts(s) == {i \in 1..(Len(s) + 1) : i = 1 \/ s[i - 1] = "\n"}

\* the first position at or after p that holds no character of set C
RunEnd(s, p, C) == SetMin({j \in p..(Len(s) + 1) : j = Len(s) + 1 \/ s[j] \notin C})

\* the position of the line terminator that ends the line of p, or Len(s) + 1
LineEnd(s, p) == SetMin({j \in p..(Len(s) + 1) : j = Len(s) + 1 \/ s[j] = "\n"})

\* /^(#{1,6})\s+(.+)$/ tried at line start i: the hashes are the whole run of
\* '#', at most six; \s+ takes the whitespace that follows, line terminators
\* included, and gives characters back until (.+) finds a character that is
\* not a line terminator; (.+) then runs to the end of that line.
headerRegex(s, i) ==
    LET p == RunEnd(s, i, {"#"})
        q == RunEnd(s, p, WhiteSpace)
        starts == {t \in (p + 1)..q : t <= Len(s) /\ s[t] # "\n"}
    IN  IF p - i \in 1..6 /\ starts # {}
        THEN LET t == SetMax(starts)
                 e == LineEnd(s, t)
             IN  [found |-> TRUE, level |-> p - i, text |-> trim(SubSeq(s, t, e - 1)),
                  index |-> i - 1, lastIndex |-> e]
        ELSE [found |-> FALSE]

RECURSIVE parseHeadersFrom(_, _, _)
\* the while loop of parseHeaders: exec() resumes at lastIndex
parseHeadersFrom(s, from, headers) ==
    LET hits == {i \in LineStarts(s) : i >= from /\ headerRegex(s, i).found}
    IN  IF hits = {}
        THEN headers
        ELSE LET m == headerRegex(s, SetMin(hits))
             IN  parseHeadersFrom(s, m.lastIndex,
                     Append(headers, [level |-> m.level, text |-> m.text, index |-> m.index]))

parseHeaders(text) ==
    IF ~text.isString \/ Len(text.chars) = 0
    THEN <<>>
    ELSE parseHeadersFrom(text.chars, 1, <<>>)

\* the list item of the line that starts at position i, as a sequence of zero
\* or one items.  The line is matched trimmed: a bullet or digits and a dot,
\* whitespace, then the rest.
listItemAt(s, i) ==
    LET raw == SubSeq(s, i, LineEnd(s, i) - 1)
        line == trim(raw)
        indent == RunEnd(raw, 1, WhiteSpace) - 1
        d == RunEnd(line, 1, Digits)
        mark == IF Len(line) > 0 /\ line[1] \in Bullets THEN 2
                ELSE IF d > 1 /\ d <= Len(line) /\ line[d] = "." THEN d + 1
                ELSE 0
        t == IF mark = 0 THEN 0 ELSE RunEnd(line, mark, WhiteSpace)
    IN  IF mark # 0 /\ t > mark /\ t <= Len(line)
        THEN << [text |-> SubSeq(line, t, Len(line)),
                 type |-> IF line[1] \in Bullets THEN "unordered" ELSE "ordered",
                 levelTimes2 |-> indent + 2,
                 index |-> i - 1] >>
        ELSE <<>>

RECURSIVE parseListFrom(_, _, _)
\* the for loop of parseList over the lines, from the line that starts at i
parseListFrom(s, i, items) ==
    LET e == LineEnd(s, i)
        found == items \o listItemAt(s, i)
    IN  IF e > Len(s) THEN found ELSE parseListFrom(s, e + 1, found)

parseList(text) ==
    IF ~text.isString \/ Len(text.chars) = 0
    THEN <<>>
    ELSE parseListFrom(text.chars, 1, <<>>)

\* a test that takes every header of level 3 and deeper for a subsection
opensSubsection_deeper(header, n) == header.level >= 3 /\ n > 0

\* header.level === 3 && currentSection, n the number of sections so far
opensSubsection(header, n) == header.level = 3 /\ n > 0

RECURSIVE headerLoop(_, _, _)
\* the loop over headers[1..]: a level-2 header opens a section, a level-3
\* header a subsection of the current section, every other header is skipped
headerLoop(headers, i, sections) ==
    IF i > Len(headers)
    THEN sections
    ELSE LET header == headers[i]
             n == Len(sections)
         IN  headerLoop(headers, i + 1,
                 IF header.level = 2
                 THEN Append(sections, [title |-> header.text, level |-> 2, items |-> <<>>,
                                        subsections |-> <<>>, startIndex |-> header.index])
                 ELSE IF opensSubsection(header, n)
                 THEN [sections EXCEPT ![n].subsections =
                          Append(@, [title |-> header.text, level |-> 3, items |-> <<>>,
                                     startIndex |-> header.index])]
                 ELSE sections)

\* a loop that stops at the first element that starts before index
lastBefore_first(list, index) ==
    IF Len(list) > 0 /\ list[1].startIndex < index THEN 1 ELSE 0

\* a for...of loop that keeps the last element while startIndex < index and
\* breaks at the first element that is not before index: the number of leading
\* elements that start before index
lastBefore(list, index) ==
    SetMax({n \in 0..Len(list) : \A k \in 1..n : list[k].startIndex < index})

\* the section and subsection (0 for none) a list item is pushed to
targetOf(sections, item) ==
    LET ts == lastBefore(sections, item.index)
        before == IF ts = 0 THEN 0 ELSE lastBefore(sections[ts].subsections, item.index)
        open == ts # 0 /\ (ts = Len(sections) \/ item.index < sections[ts + 1].startIndex)
    IN  [section |-> ts, subsection |-> IF open THEN before ELSE 0]

RECURSIVE associate(_, _, _)
\* lists.forEach: root is [items, sections]
associate(root, lists, i) ==
    IF i > Len(lists)
    THEN root
    ELSE LET item == lists[i]
             tg == targetOf(root.sections, item)
         IN  associate(
                 IF tg.subsection # 0
                 THEN [root EXCEPT !.sections[tg.section].subsections[tg.subsection].items =
                          Append(@, item.text)]
                 ELSE IF tg.section # 0
                 THEN [root EXCEPT !.sections[tg.section].items = Append(@, item.text)]
                 ELSE [root EXCEPT !.items = Append(@, item.text)],
                 lists, i + 1)

\* nodes.push of a node with the next id
pushNode(out, text, level, parent) ==
    Append(out, [id |-> Len(out) + 1, text |-> text, level |-> level, parent |-> parent])

RECURSIVE pushItems(_, _, _, _, _)
pushItems(out, items, i, level, parent) ==
    IF i > Len(items)
    THEN out
    ELSE pushItems(pushNode(out, items[i], level, parent), items, i + 1, level, parent)

RECURSIVE pushSubsections(_, _, _, _)
pushSubsections(out, subsections, i, parent) ==
    IF i > Len(subsections)
    THEN out
    ELSE LET withSub == pushNode(out, subsections[i].title, 3, parent)
         IN  pushSubsections(pushItems(withSub, subsections[i].items, 1, 4, Len(withSub)),
                             subsections, i + 1, parent)

RECURSIVE pushSections(_, _, _)
pushSections(out, sections, i) ==
    IF i > Len(sections)
    THEN out
    ELSE LET withSec == pushNode(out, sections[i].title, 2, 1)
             id == Len(withSec)
         IN  pushSections(pushSubsections(pushItems(withSec, sections[i].items, 1, 3, id),
                                          sections[i].subsections, 1, id),
                          sections, i + 1)

\* root node, then per section its node, its items and its subsections with
\* their items; the items of root itself are not visited
buildNodeStructure(data) ==
    pushSections(pushNode(<<>>, data.title, 1, 0), data.sections, 1)

MindMapTitle == <<"M", "i", "n", "d", " ", "M", "a", "p">>

NoHeadersError == "No headers found in markdown"

\* a parser that reports no headers unless some header has level 1
noHeaders_noLevel1(headers) == \A i \in 1..Len(headers) : headers[i].level # 1

\* headers.length === 0
noHeaders(headers) == Len(headers) = 0

\* a guard that answers with the placeholder tree and its error
emptyResult_placeholder ==
    [title |-> MindMapTitle, sections |-> <<>>, nodes |-> <<>>, error |-> NoHeadersError]

\* the result of the guard on a falsy or non-string argument
emptyResult == [title |-> <<>>, sections |-> <<>>, nodes |-> <<>>, error |-> null]

\* the root object after the header loop and lists.forEach
buildRoot(headers, lists) ==
    associate([title |-> headers[1].text, level |-> headers[1].level, items |-> <<>>,
               sections |-> headerLoop(headers, 2, <<>>)],
              lists, 1)

parseMarkdown(md) ==
    IF ~md.isString \/ Len(md.chars) = 0
    THEN emptyResult
    ELSE LET headers == parseHeaders(md)
             lists == parseList(md)
         IN  IF noHeaders(headers)
             THEN [title |-> MindMapTitle, sections |-> <<>>, nodes |-> <<>>,
                   error |-> NoHeadersError]
             ELSE LET root == buildRoot(headers, lists)
                  IN  [title |-> root.title, sections |-> root.sections,
                       nodes |-> buildNodeStructure(root), error |-> null]

------------------------------------------------------------------------------
(* utils/mindMapGenerator: calculateNodePositions, generateConnections and   *)
(* generateLayout over the nodes buildNodeStructure returns. A node that got *)
(* no position has placed = FALSE and x = y = 0, the value every later read  *)
(* (node.x || 0) takes for it.                                               *)

GEN_width == 800
GEN_height == 600
GEN_levelSpacing == 200
GEN_boundsMargin == 100

\* index * angleStep with the angle drawn from the positive x axis
positionAngle_fromRight(index, count) == index * (120 \div count)

\* index * angleStep - Math.PI / 2, in units of pi/60
positionAngle(index, count) == index * (120 \div count) - 30

\* the position positionLevelNodes gives the index-th of count nodes of a level
positionLevelNodes(level, index, count, rootX, rootY) ==
    LET radius == level * GEN_levelSpacing
        angle == positionAngle(index, count)
    IN  [x |-> PolarX(rootX, angle, radius), y |-> PolarY(rootY, angle, radius)]

\* the root is the first node of level 1 and goes to the centre; levels[0], the
\* lowest level present, is passed over by the loop and every other level is
\* placed on its circle. Levels start at 1, so the root's level is levels[0].
calculateNodePositions(ns, width, height) ==
    IF Len(ns) = 0 THEN <<>>
    ELSE IF ~\E i \in DOMAIN ns : ns[i].level = 1
    THEN [i \in DOMAIN ns |->
             [id |-> ns[i].id, level |-> ns[i].level, parent |-> ns[i].parent,
              placed |-> FALSE, x |-> 0, y |-> 0]]
    ELSE LET root == SetMin({i \in DOMAIN ns : ns[i].level = 1})
             centerX == width \div 2
             centerY == height \div 2
             lowest == SetMin({ns[i].level : i \in DOMAIN ns})
         IN  [i \in DOMAIN ns |->
                 LET level == ns[i].level
                     count == Cardinality({j \in DOMAIN ns : ns[j].level = level})
                     index == Cardinality({j \in 1..(i - 1) : ns[j].level = level})
                     pos == positionLevelNodes(level, index, count, centerX, centerY)
                 IN  IF i = root
                     THEN [id |-> ns[i].id, level |-> level, parent |-> ns[i].parent,
                           placed |-> TRUE, x |-> centerX, y |-> centerY]
                     ELSE IF level = lowest
                     THEN [id |-> ns[i].id, level |-> level, parent |-> ns[i].parent,
                           placed |-> FALSE, x |-> 0, y |-> 0]
                     ELSE [id |-> ns[i].id, level |-> level, parent |-> ns[i].parent,
                           placed |-> TRUE, x |-> pos.x, y |-> pos.y]]

\* one connection per node whose parent is set and found among the nodes
RECURSIVE generateConnections(_, _, _)
generateConnections(ns, i, out) ==
    IF i > Len(ns) THEN out
    ELSE IF ns[i].parent # 0 /\ \E j \in DOMAIN ns : ns[j].id = ns[i].parent
    THEN LET j == SetMin({k \in DOMAIN ns : ns[k].id = ns[i].parent})
         IN  generateConnections(ns, i + 1,
                 Append(out, [from |-> ns[j].id, to |-> ns[i].id,
                              fromX |-> ns[j].x, fromY |-> ns[j].y,
                              toX |-> ns[i].x, toY |-> ns[i].y]))
    ELSE generateConnections(ns, i + 1, out)

calculateBounds(ns) ==
    IF Len(ns) = 0
    THEN [minX |-> 0, minY |-> 0, maxX |-> GEN_width, maxY |-> GEN_height]
    ELSE [minX |-> SetMin({ns[i].x : i \in DOMAIN ns}) - GEN_boundsMargin,
          minY |-> SetMin({ns[i].y : i \in DOMAIN ns}) - GEN_boundsMargin,
          maxX |-> SetMax({ns[i].x : i \in DOMAIN ns}) + GEN_boundsMargin,
          maxY |-> SetMax({ns[i].y : i \in DOMAIN ns}) + GEN_boundsMargin]

generateLayout(parsedData, containerWidth, containerHeight) ==
    LET positioned == calculateNodePositions(parsedData.nodes, containerWidth,
                                             containerHeight)
    IN  [nodes |-> positioned,
         connections |-> generateConnections(positioned, 1, <<>>),
         bounds |-> calculateBounds(positioned),
         center |-> [x |-> containerWidth \div 2, y |-> containerHeight \div 2]]

------------------------------------------------------------------------------
(* The viewport specification: one controller, any sequence of at most      *)
(* MaxSteps operations and events.                                           *)

Hist(op) ==
    /\ lastOp' = op
    /\ run' = IF lastOp = op THEN Min2(run + 1, ZoomCalls + 1) ELSE 1
    /\ runFrom' = IF lastOp = op THEN runFrom ELSE scale

Budget ==
    /\ steps < MaxSteps
    /\ steps' = steps + 1
    /\ UNCHANGED parseVars
    /\ UNCHANGED sideVars

\* an empty text
EmptyText == [isString |-> TRUE, chars |-> <<>>]

\* the application after its constructor: no text, no timer set
AppNew ==
    [currentMarkdown |-> EmptyText, generateTimeout |-> 0, timers |-> {},
     destroyed |-> FALSE, generated |-> <<>>, edits |-> 0]

\* ThemeManager after its constructor with nothing stored and a system that
\* prefers dark: no subscriber, no call yet
ThemeNew ==
    [currentTheme |-> "dark", subscribers |-> <<>>, left |-> {},
     atStart |-> <<>>, leftAtStart |-> {}, before |-> "dark", calls |-> <<>>,
     accepted |-> TRUE, errors |-> 0]

\* localStorage without the item 'mark2-editor-content'
NoItem == [has |-> FALSE, text |-> ""]

\* EditorPanel and its TextEditor after their constructors, before render():
\* value = options.value || '', isDirty = false, lastSavedValue = value,
\* autoSaveTimeout = null, no element yet, the panel visible
EditorNew ==
    [phase |-> "new", panel |-> TRUE, autoSave |-> TRUE, showStats |-> TRUE,
     value |-> "", lastSavedValue |-> "", isDirty |-> FALSE,
     autoSaveTimeout |-> 0, statusElement |-> FALSE, element |-> FALSE,
     isVisible |-> TRUE, storage |-> NoItem, synced |-> FALSE,
     timers |-> {}, nextId |-> 0, fault |-> FALSE]

SideInit ==
    /\ app = AppNew
    /\ theme = ThemeNew
    /\ editor = EditorNew

\* this.currentMindMapData = null
NoLayout == [none |-> TRUE]

NoParse ==
    /\ markdown = NonString
    /\ parsed = emptyResult
    /\ layout = NoLayout

CoreInit ==
    /\ impl \in {MindMap, MindMapRenderer}
    /\ phase = "new"
    /\ scale = One
    /\ panX = 0
    /\ panY = 0
    /\ isDragging = FALSE
    /\ lastPos = <<0, 0>>
    /\ nodes = <<>>
    /\ connections = <<>>
    /\ container \in IF impl = MindMap
                     THEN {<<MM_viewBoxWidth, MM_viewBoxHeight>>}
                     ELSE ContainerSizes
    /\ listeners = 0
    /\ drawn = <<>>
    /\ fault = FALSE
    /\ lastOp = "new"
    /\ run = 0
    /\ runFrom = One
    /\ steps = 0

ViewInit == CoreInit /\ SideInit

Init == ViewInit /\ NoParse

Render == Budget /\ Hist("render") /\ MM_render

Generate ==
    /\ Budget
    /\ Hist("generate")
    /\ \/ \E doc \in MMDocs : MM_generateMindMap(doc)
       \/ \E data \in MRDatas : MR_render(data)

\* connection lists handed to MindMap.renderConnections: none, one between
\* the first two nodes, and two with an id no node has
MMConnLists ==
    {<<>>,
     <<[source |-> <<"node", 0>>, target |-> <<"node", 1>>]>>,
     <<[source |-> <<"node", 0>>, target |-> <<"node", MissingNode>>],
       [source |-> <<"node", 0>>, target |-> <<"node", 1>>]>>,
     <<[source |-> <<"node", 0>>, target |-> <<"node", 1>>],
       [source |-> <<"node", MissingNode>>, target |-> <<"node", 1>>]>>}

RenderConnections ==
    /\ Budget
    /\ Hist("renderConnections")
    /\ \E conns \in MMConnLists : MM_renderConnections(conns)

Destroy == Budget /\ Hist("destroy") /\ MM_destroy

ZoomIn == Budget /\ Hist("zoomIn") /\ (MM_zoomIn \/ MR_zoomIn) /\ UNCHANGED drawn

ZoomOut == Budget /\ Hist("zoomOut") /\ (MM_zoomOut \/ MR_zoomOut) /\ UNCHANGED drawn

ResetView == Budget /\ Hist("resetView") /\ (MM_resetView \/ MR_resetView) /\ UNCHANGED drawn

FitToContent == Budget /\ Hist("fit") /\ (MM_fitToContent \/ MR_fitToView) /\ UNCHANGED drawn

Wheel ==
    /\ Budget
    /\ Hist("wheel")
    /\ UNCHANGED drawn
    /\ \E deltaY \in WheelDeltas : MM_handleWheel(deltaY) \/ MR_wheel(deltaY)

PointerDown ==
    /\ Budget
    /\ UNCHANGED drawn
    /\ \E pos \in PointerPositions, target \in Targets :
          /\ Hist(IF target = "canvas" THEN "downCanvas" ELSE "downNode")
          /\ (MM_handlePointerStart(pos, target) \/ MR_mousedown(pos, target))

PointerMove ==
    /\ Budget
    /\ UNCHANGED drawn
    /\ Hist("move")
    /\ \E pos \in PointerPositions : MM_handlePointerMove(pos) \/ MR_mousemove(pos)

PointerUp == Budget /\ Hist("up") /\ (MM_handlePointerEnd \/ MR_mouseup) /\ UNCHANGED drawn

PointerLeave == Budget /\ Hist("leave") /\ (MM_pointerLeave \/ MR_mouseleave) /\ UNCHANGED drawn

Next ==
    \/ Render
    \/ Generate
    \/ RenderConnections
    \/ Destroy
    \/ ZoomIn
    \/ ZoomOut
    \/ ResetView
    \/ FitToContent
    \/ Wheel
    \/ PointerDown
    \/ PointerMove
    \/ PointerUp
    \/ PointerLeave

Spec == Init /\ [][Next]_vars

------------------------------------------------------------------------------
(* Viewport claims *)

\* the rectangle drawn for node n: centre (x, y), nodeWidth x nodeHeight in
\* MindMap, the node's own width x height in MindMapRenderer
HalfW(n) == IF impl = MindMap THEN MM_nodeWidth \div 2 ELSE n.width \div 2

HalfH(n) == IF impl = MindMap THEN MM_nodeHeight \div 2 ELSE n.height \div 2

BoxMinX == SetMin({nodes[i].x - HalfW(nodes[i]) : i \in DOMAIN nodes})

BoxMaxX == SetMax({nodes[i].x + HalfW(nodes[i]) : i \in DOMAIN nodes})

BoxMinY == SetMin({nodes[i].y - HalfH(nodes[i]) : i \in DOMAIN nodes})

BoxMaxY == SetMax({nodes[i].y + HalfH(nodes[i]) : i \in DOMAIN nodes})

\* the last call was fit-to-content (directly, at the end of a load, or as
\* MindMapRenderer.resetView) and it found nodes
FitRan ==
    /\ \/ lastOp \in {"fit", "generate"}
       \/ impl = MindMapRenderer /\ lastOp = "resetView"
    /\ Len(nodes) > 0
    /\ ~fault

\* the zoom bounds of each controller: config.minZoom / config.maxZoom in
\* MindMap, the widest clamp (the wheel's) in MindMapRenderer
MinScale == IF impl = MindMap THEN MM_minZoom ELSE MR_wheelMin

MaxScale == IF impl = MindMap THEN MM_maxZoom ELSE MR_zoomMax

\* C1: in every reachable state minScale <= scale <= maxScale, for one fixed
\* pair of bounds per controller.
C1_ScaleWithinBounds == MinScale <= scale /\ scale <= MaxScale

\* C3: while Panning, a pointer move by (dx, dy) adds exactly (dx / scale,
\* dy / scale) to the pan offset, in both controllers.
C3_PanByScaledDelta ==
    [][(lastOp' = "move" /\ isDragging) =>
          /\ panX' = panX + ((lastPos'[1] - lastPos[1]) * PanOne * One) \div scale
          /\ panY' = panY + ((lastPos'[2] - lastPos[2]) * PanOne * One) \div scale]_vars

\* C4: during a drag the world point under the pointer stays fixed.  With
\* screen = pan + scale * world the world point under pointer p is
\* (p - pan) / scale; a move keeps scale, so the point is the same exactly
\* when p - pan is.
C4_PointUnderPointerFixed ==
    [][(lastOp' = "move" /\ isDragging) =>
          /\ lastPos'[1] * PanOne - panX' = lastPos[1] * PanOne - panX
          /\ lastPos'[2] * PanOne - panY' = lastPos[2] * PanOne - panY]_vars

\* C5: Panning is entered only by a pointer-down over empty canvas, is left by
\* pointer-up and by pointer-leave, and a move that follows a pointer-up or a
\* pointer-leave changes nothing of the viewport.
C5_PanningStateMachine ==
    [][/\ (~isDragging /\ isDragging') => lastOp' = "downCanvas"
       /\ lastOp' \in {"up", "leave"} => ~isDragging'
       /\ (lastOp \in {"up", "leave"} /\ lastOp' = "move") =>
              UNCHANGED <<scale, panX, panY>>]_vars

\* C6: resetView() leaves scale = 1 and pan = (0, 0), whatever the nodes are.
C6_ResetViewIsIdentity ==
    lastOp = "resetView" => (scale = One /\ panX = 0 /\ panY = 0)

\* C7: after fit-to-content on a non-empty node set the centre of the nodes'
\* bounding box is drawn at the centre of the container:
\* pan + scale * boxCentre = container / 2 on both axes.
C7_FitCentresBox ==
    FitRan =>
        /\ panX + scale * (BoxMinX + BoxMaxX) = container[1] * One
        /\ panY + scale * (BoxMinY + BoxMaxY) = container[2] * One

\* a fit ran on several nodes and changed the scale it found
C7_Witness == FitRan /\ lastOp = "fit" /\ Len(nodes) > 1 /\ runFrom # scale

\* C8: fit-to-content sets scale to
\* clamp(min(containerW/boxW, containerH/boxH, maxScale) * 0.95, minScale, maxScale)
\* with the box widened by 0.8 of a nominal node on each side and the zoom
\* bounds of the controller.
C8_FitScaleClaimed ==
    FitRan =>
        LET nominalW == IF impl = MindMap THEN MM_nodeWidth ELSE MR_nodeWidth
            nominalH == IF impl = MindMap THEN MM_nodeHeight ELSE MR_nodeHeight
            boxW == BoxMaxX - BoxMinX + 2 * ((nominalW * 8) \div 10)
            boxH == BoxMaxY - BoxMinY + 2 * ((nominalH * 8) \div 10)
            raw == Min2(Min2((container[1] * One) \div boxW,
                             (container[2] * One) \div boxH), MaxScale)
        IN  scale = Max2(MinScale, Min2(MaxScale, (raw * 95) \div 100))

\* C9: fit-to-content with zero nodes changes neither scale nor pan and raises
\* nothing.
C9_FitEmptyIsNoop ==
    [][(/\ \/ lastOp' = "fit"
           \/ impl = MindMapRenderer /\ lastOp' = "resetView"
        /\ Len(nodes) = 0)
       => (scale' = scale /\ panX' = panX /\ panY' = panY /\ ~fault')]_vars

\* a fit ran with no nodes on a viewport that was zoomed before
C9_Witness == lastOp = "fit" /\ Len(nodes) = 0 /\ scale # One /\ ~fault

------------------------------------------------------------------------------
(* The zoom specification: a rendered or unrendered MindMap, any number of  *)
(* zoomIn(), zoomOut() and resetView() calls and at most MaxWheels wheel      *)
(* events, which bring the scale to values off the 1.2-grid.                 *)

InitZoom == Init /\ impl = MindMap

Unbudgeted == UNCHANGED <<steps, markdown, parsed, layout>> /\ UNCHANGED sideVars

ZoomRender == Unbudgeted /\ Hist("render") /\ MM_render

ZoomZoomIn == Unbudgeted /\ Hist("zoomIn") /\ MM_zoomIn /\ UNCHANGED drawn

ZoomZoomOut == Unbudgeted /\ Hist("zoomOut") /\ MM_zoomOut /\ UNCHANGED drawn

ZoomResetView == Unbudgeted /\ Hist("resetView") /\ MM_resetView /\ UNCHANGED drawn

ZoomWheel ==
    /\ steps < MaxWheels
    /\ steps' = steps + 1
    /\ UNCHANGED parseVars
    /\ UNCHANGED sideVars
    /\ UNCHANGED drawn
    /\ Hist("wheel")
    /\ \E deltaY \in WheelDeltas : MM_handleWheel(deltaY)

NextZoom ==
    \/ ZoomRender
    \/ ZoomZoomIn
    \/ ZoomZoomOut
    \/ ZoomResetView
    \/ ZoomWheel

SpecZoom == InitZoom /\ [][NextZoom]_vars

InBounds(s) == MM_minZoom <= s /\ s <= MM_maxZoom

\* C2: from an in-bounds scale, ZoomCalls zoomIn() calls in a row end at
\* maxZoom and a zoomIn() at maxZoom stays there; ZoomCalls zoomOut() calls in
\* a row end at minZoom and a zoomOut() at minZoom stays there.
C2_ZoomConverges ==
    /\ [](InBounds(scale))
    /\ []((lastOp = "zoomIn" /\ run >= ZoomCalls) => scale = MM_maxZoom)
    /\ []((lastOp = "zoomOut" /\ run >= ZoomCalls) => scale = MM_minZoom)
    /\ [][(lastOp' = "zoomIn" /\ scale = MM_maxZoom) => scale' = MM_maxZoom]_vars
    /\ [][(lastOp' = "zoomOut" /\ scale = MM_minZoom) => scale' = MM_minZoom]_vars

\* zoomIn() was called ZoomCalls times in a row, starting at minZoom
C2_Witness ==
    /\ lastOp = "zoomIn"
    /\ run = ZoomCalls
    /\ runFrom = MM_minZoom
    /\ scale = MM_maxZoom

------------------------------------------------------------------------------
(* The parser specification: a markdown text or a value that is not a       *)
(* string is handed to parseMarkdown, as index.js does before it renders.    *)

Chars == {"#", " ", "\n", "a"}

\* every text of at most n characters of Chars
StringsUpTo(n) == UNION {[1..k -> Chars] : k \in 0..n}

DocTitle == <<"#", " ", "T">>

DocLines ==
    { <<"#", " ", "T">>, <<"#", "#", " ", "A">>, <<"#", "#", "#", " ", "B">>,
      <<"#", "#", "#", "#", " ", "C">>, <<"-", " ", "x">>, <<"1", ".", " ", "y">>,
      <<"p">> }

RECURSIVE joinLines(_, _)
\* lines i.. of ls joined by line feeds
joinLines(ls, i) ==
    IF i = Len(ls) THEN ls[i] ELSE ls[i] \o <<"\n">> \o joinLines(ls, i + 1)

\* every document of at most n lines of DocLines
LineDocs(n) == UNION {{joinLines(ls, 1) : ls \in [1..k -> DocLines]} : k \in 1..n}

BodyLines ==
    { <<"#", "#", " ", "A">>, <<"#", "#", "#", " ", "B">>,
      <<"#", "#", "#", "#", " ", "C">>, <<"#", " ", "U">>, <<"-", " ", "x">>,
      <<"1", ".", " ", "y">> }

\* "# T" followed by at most n lines of BodyLines
TitledDocs(n) ==
    UNION {{joinLines(<<DocTitle>> \o ls, 1) : ls \in [1..k -> BodyLines]} : k \in 0..n}

Markdowns ==
    {NonString} \cup
    {[isString |-> TRUE, chars |-> c] :
        c \in StringsUpTo(MaxLen) \cup LineDocs(MaxLines) \cup TitledDocs(MaxBody)}

InitParse ==
    /\ ViewInit
    /\ impl = MindMapRenderer
    /\ markdown \in Markdowns
    /\ parsed = emptyResult
    /\ layout = NoLayout

ParseMarkdown ==
    /\ parsed' = parseMarkdown(markdown)
    /\ fault' = FALSE
    /\ lastOp' = "parseMarkdown"
    /\ UNCHANGED <<impl, phase, scale, panX, panY, isDragging, lastPos, nodes,
                   connections, container, listeners, run, runFrom, steps, markdown,
                   layout, drawn>>
    /\ UNCHANGED sideVars

NextParse == ParseMarkdown

SpecParse == InitParse /\ [][NextParse]_vars

Parsed == lastOp = "parseMarkdown"

HasLevel1(headers) == \E i \in 1..Len(headers) : headers[i].level = 1

\* C10 as stated, taken for the non-empty texts: every text without a level-1
\* header parses to a tree with no sections and no nodes that carries a
\* non-empty error, without a throw.
C10_NoLevel1IsEmptyTree ==
    (Parsed /\ markdown.isString /\ Len(markdown.chars) > 0
        /\ ~HasLevel1(parseHeaders(markdown)))
        => /\ parsed.sections = <<>>
           /\ parsed.nodes = <<>>
           /\ parsed.error \notin {null, ""}
           /\ ~fault

\* C10: parseMarkdown never throws; a non-empty string with no header of any
\* level parses to the placeholder tree (title 'Mind Map', no sections, no
\* nodes) with the error 'No headers found in markdown'; a string whose first
\* header has level 2-6 is parsed like any other, that header being the title,
\* with a root node and error null; the empty string gives error null.
C10_NoHeaderIsEmptyTree ==
    (Parsed /\ markdown.isString)
        => LET headers == parseHeaders(markdown)
           IN  /\ ~fault
               /\ (Len(markdown.chars) > 0 /\ Len(headers) = 0)
                      => /\ parsed.title = MindMapTitle
                         /\ parsed.sections = <<>>
                         /\ parsed.nodes = <<>>
                         /\ parsed.error = NoHeadersError
                         /\ parsed.error \notin {null, ""}
               /\ Len(headers) > 0
                      => /\ parsed.title = headers[1].text
                         /\ Len(parsed.nodes) >= 1
                         /\ parsed.nodes[1].text = headers[1].text
                         /\ parsed.error = null
               /\ Len(markdown.chars) = 0 => parsed = emptyResult

\* a text whose only headers have level 2-6 has been parsed
C10_Witness ==
    /\ Parsed
    /\ markdown.isString
    /\ Len(parseHeaders(markdown)) > 0
    /\ ~HasLevel1(parseHeaders(markdown))
    /\ parsed.error = null
    /\ Len(parsed.nodes) >= 1

\* a text without any header has been parsed
C10_WitnessNoHeader ==
    /\ Parsed
    /\ markdown.isString
    /\ Len(markdown.chars) > 0
    /\ Len(parseHeaders(markdown)) = 0
    /\ parsed.error = NoHeadersError

\* C11: for the empty string and for a value that is not a string (null,
\* undefined, a number), parseHeaders and parseList return empty lists and
\* parseMarkdown returns a tree with no sections, no nodes and error null, and
\* nothing is thrown.
C11_NonTextInputIsEmpty ==
    (Parsed /\ (~markdown.isString \/ Len(markdown.chars) = 0))
        => /\ parseHeaders(markdown) = <<>>
           /\ parseList(markdown) = <<>>
           /\ parsed.sections = <<>>
           /\ parsed.nodes = <<>>
           /\ parsed.error = null
           /\ ~fault

\* a value that is not a string has been parsed
C11_Witness == Parsed /\ ~markdown.isString /\ parsed.nodes = <<>>

\* the headers after the first that satisfy Test, in document order
LaterHeaders(headers, Test(_)) == SelectSeq(Tail(headers), Test)

\* title and offset of every element of a list of headers, sections or
\* subsections
Outline(list) == [k \in 1..Len(list) |-> <<list[k].title, list[k].startIndex>>]

HeaderOutline(hs) == [k \in 1..Len(hs) |-> <<hs[k].text, hs[k].index>>]

\* C12: the first header is the Title; the later level-2 headers are the
\* Sections, in document order; the Subsections of a Section are the level-3
\* headers between it and the next level-2 header; a level-3 header before
\* every level-2 header, a header of level 4-6 and a later level-1 header give
\* no node.
C12_HeadersToTree ==
    (Parsed /\ Len(parseHeaders(markdown)) > 0)
        => LET headers == parseHeaders(markdown)
               l2 == LaterHeaders(headers, LAMBDA h : h.level = 2)
               Under(k) == LaterHeaders(headers,
                               LAMBDA h : /\ h.level = 3
                                          /\ h.index > l2[k].index
                                          /\ (k < Len(l2) => h.index < l2[k + 1].index))
               items == [k \in 1..Len(l2) |-> Len(parsed.sections[k].items)]
               subs == [k \in 1..Len(l2) |-> parsed.sections[k].subsections]
               NodesOf(k) ==
                   <<2>> \o [i \in 1..items[k] |-> 3]
                         \o [i \in 1..Len(subs[k]) |-> 3]
           IN  /\ parsed.title = headers[1].text
               /\ Outline(parsed.sections) = HeaderOutline(l2)
               /\ \A k \in 1..Len(l2) : Outline(subs[k]) = HeaderOutline(Under(k))
               /\ parsed.nodes[1].level = 1
               /\ Cardinality({i \in DOMAIN parsed.nodes : parsed.nodes[i].level = 1}) = 1
               /\ Cardinality({i \in DOMAIN parsed.nodes : parsed.nodes[i].level = 2})
                      = Len(l2)
               /\ Len(parsed.nodes) =
                      1 + Len(l2)
                        + Cardinality({<<k, j>> \in (1..Len(l2)) \X (1..MaxBody) :
                                          j <= Len(subs[k])})
                        + Cardinality({<<k, j>> \in (1..Len(l2)) \X (1..MaxBody) :
                                          j <= items[k]})
                        + Cardinality({<<k, j, i>> \in
                                          (1..Len(l2)) \X (1..MaxBody) \X (1..MaxBody) :
                                          j <= Len(subs[k]) /\ i <= Len(subs[k][j].items)})

\* a text was parsed in which a level-3 header follows the second of two
\* Sections and a level-4 header occurs
C12_Witness ==
    /\ Parsed
    /\ Len(parsed.sections) = 2
    /\ Len(parsed.sections[1].subsections) = 0
    /\ Len(parsed.sections[2].subsections) = 1
    /\ \E i \in DOMAIN parseHeaders(markdown) : parseHeaders(markdown)[i].level = 4

\* the texts of the list items that satisfy Test, in document order
ItemTexts(lists, Test(_)) ==
    LET chosen == SelectSeq(lists, Test)
    IN  [k \in 1..Len(chosen) |-> chosen[k].text]

\* the last element of list that starts before index, 0 for none
LastStartingBefore(list, index) ==
    SetMax({0} \cup {k \in 1..Len(list) : list[k].startIndex < index})

\* C13: every list item is pushed to exactly one list: that of the last
\* Subsection before it within the last Section before it, else that of this
\* Section, else that of the Title.
C13_ItemsByOffset ==
    (Parsed /\ Len(parseHeaders(markdown)) > 0)
        => LET lists == parseList(markdown)
               root == buildRoot(parseHeaders(markdown), lists)
               secs == root.sections
               Sec(item) == LastStartingBefore(secs, item.index)
               Sub(item) == IF Sec(item) = 0 THEN 0
                            ELSE LastStartingBefore(secs[Sec(item)].subsections, item.index)
           IN  /\ root.items = ItemTexts(lists, LAMBDA it : Sec(it) = 0)
               /\ \A s \in 1..Len(secs) :
                      /\ secs[s].items =
                             ItemTexts(lists, LAMBDA it : Sec(it) = s /\ Sub(it) = 0)
                      /\ \A u \in 1..Len(secs[s].subsections) :
                             secs[s].subsections[u].items =
                                 ItemTexts(lists, LAMBDA it : Sec(it) = s /\ Sub(it) = u)
               /\ parsed.sections = secs

\* a text was parsed whose list item follows a second Section, the first
\* Section having a Subsection: the item is the second Section's
C13_Witness ==
    /\ Parsed
    /\ Len(parseHeaders(markdown)) > 0
    /\ Len(parseList(markdown)) = 1
    /\ Len(parsed.sections) = 2
    /\ Len(parsed.sections[1].subsections) = 1
    /\ Len(parsed.sections[2].items) = 1

\* a text was parsed whose first list item precedes every Section
C13_WitnessTitle ==
    /\ Parsed
    /\ Len(parseHeaders(markdown)) > 0
    /\ Len(buildRoot(parseHeaders(markdown), parseList(markdown)).items) = 1
    /\ Len(parsed.sections) = 1
    /\ Len(parsed.sections[1].items) = 1

\* the nodes of parsed that stand for list items: all nodes but the root, the
\* sections and the subsections
ItemNodeCount ==
    Len(parsed.nodes) - 1 - Len(parsed.sections)
        - Cardinality({<<k, j>> \in (1..Len(parsed.sections)) \X (1..MaxBody) :
                          j <= Len(parsed.sections[k].subsections)})

\* C14: every list item of a text with a Title, an item that precedes every
\* Section included, yields exactly one Item node: there are as many Item
\* nodes as list items.
C14_EveryItemHasNode ==
    (Parsed /\ Len(parseHeaders(markdown)) > 0)
        => ItemNodeCount = Len(parseList(markdown))

------------------------------------------------------------------------------
(* Graph claims *)

NodeIds == {nodes[i].id : i \in DOMAIN nodes}

\* the endpoints of a connection: source/target in MindMap, from/to in
\* MindMapRenderer
ConnFrom(c) == IF impl = MindMap THEN c.source ELSE c.from

ConnTo(c) == IF impl = MindMap THEN c.target ELSE c.to

\* the parent link of a node: parent in MindMap, parentId in MindMapRenderer
ParentOf(n) == IF impl = MindMap THEN n.parent ELSE n.parentId

\* a document was loaded and its nodes and connections produced
Produced == lastOp = "generate" /\ ~fault /\ Len(nodes) > 0

\* C15: the graph produced for a document has nodeCount - 1 connections and
\* both endpoints of every connection are ids of produced nodes.
C15_ConnectionsSpanNodes ==
    Produced =>
        /\ Len(connections) = Len(nodes) - 1
        /\ \A k \in DOMAIN connections :
               ConnFrom(connections[k]) \in NodeIds /\ ConnTo(connections[k]) \in NodeIds

RECURSIVE ReachesRoot(_, _)
\* following at most fuel parent links from node i ends at a node without parent
ReachesRoot(i, fuel) ==
    \/ ParentOf(nodes[i]) = Null
    \/ /\ fuel > 0
       /\ \E j \in DOMAIN nodes :
              nodes[j].id = ParentOf(nodes[i]) /\ ReachesRoot(j, fuel - 1)

\* C16: the produced nodes form a tree: ids are pairwise distinct, exactly one
\* node has no parent, every other node's parent is a produced node, and the
\* parent links lead from every node to the node without parent.
C16_NodesFormTree ==
    Produced =>
        /\ \A i, j \in DOMAIN nodes : nodes[i].id = nodes[j].id => i = j
        /\ Cardinality({i \in DOMAIN nodes : ParentOf(nodes[i]) = Null}) = 1
        /\ \A i \in DOMAIN nodes :
               ParentOf(nodes[i]) # Null => ParentOf(nodes[i]) \in NodeIds
        /\ \A i \in DOMAIN nodes : ReachesRoot(i, Len(nodes))

\* the tier a connection gets from the kind of its parent node
TierOf(type) ==
    IF type = "root" THEN "primary"
    ELSE IF type = "section" THEN "secondary"
    ELSE IF type = "subsection" THEN "tertiary"
    ELSE "none"

\* the connections that join parent p to child c
PairConnections(p, c) ==
    {k \in DOMAIN connections : connections[k].from = p /\ connections[k].to = c}

\* C17: in the graph MindMapRenderer builds, every node with a parent has
\* exactly one connection from that parent, every connection joins a node to
\* its parent, and the connection's tier follows from the parent's kind alone:
\* root gives primary, section gives secondary, subsection gives tertiary.
C17_TierByParentKind ==
    (impl = MindMapRenderer /\ phase = "rendered") =>
        /\ \A i \in DOMAIN nodes :
               nodes[i].parentId # Null =>
                   /\ Cardinality(PairConnections(nodes[i].parentId, nodes[i].id)) = 1
                   /\ \E j \in DOMAIN nodes :
                          /\ nodes[j].id = nodes[i].parentId
                          /\ \A k \in PairConnections(nodes[i].parentId, nodes[i].id) :
                                 connections[k].type = TierOf(nodes[j].type)
        /\ \A k \in DOMAIN connections :
               \E i \in DOMAIN nodes :
                   nodes[i].id = connections[k].to /\ nodes[i].parentId = connections[k].from

\* a rendered graph with a section, a subsection, a direct item and an item of
\* the subsection: all three tiers occur
C17_Witness ==
    /\ impl = MindMapRenderer
    /\ phase = "rendered"
    /\ \E k \in DOMAIN connections : connections[k].type = "primary"
    /\ \E k \in DOMAIN connections :
           connections[k].type = "secondary" /\ connections[k].to[1] = "subsection"
    /\ \E k \in DOMAIN connections :
           connections[k].type = "secondary" /\ connections[k].to[1] = "item"
    /\ \E k \in DOMAIN connections : connections[k].type = "tertiary"

\* C18: a call of renderConnections on a drawn graph, with a connection whose
\* source or target is not among the nodes, passes over that connection and
\* ends without fault.
C18_MissingEndpointIsSkipped ==
    (lastOp = "renderConnections" /\ phase = "rendered" /\ Len(nodes) >= 2) => ~fault

------------------------------------------------------------------------------
(* The application pipeline: App.generateMindMap on the text of the editor,  *)
(* which parses it, lays it out with generateLayout and draws it with the    *)
(* MindMapRenderer.                                                          *)

MaxAppBody == 3
MaxRenders == 2

AppMarkdowns ==
    {[isString |-> TRUE, chars |-> c] : c \in StringsUpTo(1) \cup TitledDocs(MaxAppBody)}

InitApp ==
    /\ ViewInit
    /\ impl = MindMapRenderer
    /\ markdown \in AppMarkdowns
    /\ parsed = emptyResult
    /\ layout = NoLayout

\* showEmptyState, showMindMapError and setGenerating(true) replace the
\* content of the container, the SVG included
App_generateMindMap(md) ==
    /\ impl = MindMapRenderer
    /\ lastOp' = "generateMindMap"
    /\ UNCHANGED <<run, runFrom, steps>>
    /\ IF Len(trim(md.chars)) = 0
       THEN /\ drawn' = <<>>
            /\ fault' = FALSE
            /\ UNCHANGED <<impl, phase, scale, panX, panY, isDragging, lastPos, nodes,
                           connections, container, listeners, parsed, layout>>
       ELSE LET parsedData == parseMarkdown(md)
            IN  /\ parsed' = parsedData
                /\ IF parsedData.error # null
                   THEN /\ drawn' = <<>>
                        /\ fault' = FALSE
                        /\ UNCHANGED <<impl, phase, scale, panX, panY, isDragging,
                                       lastPos, nodes, connections, container,
                                       listeners, layout>>
                   ELSE /\ layout' = generateLayout(parsedData, GEN_width, GEN_height)
                        /\ MR_render(parsedData)

\* generateMindMap on the text of the editor
AppGenerateMindMap ==
    /\ listeners < MaxRenders
    /\ UNCHANGED markdown
    /\ UNCHANGED sideVars
    /\ App_generateMindMap(markdown)

\* the exported layout routines called on the parse result itself, without
\* the checks of App.generateMindMap: generateLayout(parseMarkdown(text)) and
\* renderer.render(parseMarkdown(text))
LayoutParseResult ==
    /\ listeners < MaxRenders
    /\ lastOp' = "layout"
    /\ UNCHANGED <<run, runFrom, steps, markdown>>
    /\ UNCHANGED sideVars
    /\ LET parsedData == parseMarkdown(markdown)
       IN  /\ parsed' = parsedData
           /\ layout' = generateLayout(parsedData, GEN_width, GEN_height)
           /\ MR_render(parsedData)

NextApp == AppGenerateMindMap \/ LayoutParseResult

SpecApp == InitApp /\ [][NextApp]_vars

\* the editor's text was parsed without error, laid out and drawn
Generated == lastOp = "generateMindMap" /\ layout # NoLayout /\ phase = "rendered"

SectionLine == <<"#", "#", " ", "A">>

\* "# T" followed by n lines "## A"
OnlySections(n) == joinLines(<<DocTitle>> \o [i \in 1..n |-> SectionLine], 1)

\* node n lies at the given angle and radius from the centre
At(n, centerX, centerY, angle, radius) ==
    n.x = PolarX(centerX, angle, radius) /\ n.y = PolarY(centerY, angle, radius)

\* the nodes of the renderer that are sections, and those of the layout
RendererSections == {i \in DOMAIN nodes : nodes[i].type = "section"}

LayoutSections == {i \in DOMAIN layout.nodes : layout.nodes[i].level = 2}

\* the 0-based rank of layout node i among the layout's sections
LayoutRank(i) == Cardinality({j \in LayoutSections : j < i})

NodeById(id) == nodes[CHOOSE i \in DOMAIN nodes : nodes[i].id = id]

HasNodeId(id) == \E i \in DOMAIN nodes : nodes[i].id = id

\* item k of section si lies on the radial fan of a single item: on the
\* section's own ray, levelSpacing * 2.8 from the section
OnRadialFan(si, sectionAngle) ==
    /\ HasNodeId(<<"item", si, 0>>)
    /\ At(NodeById(<<"item", si, 0>>), NodeById(<<"section", si>>).x,
          NodeById(<<"section", si>>).y, sectionAngle, (MR_levelSpacing * 28) \div 10)

\* the count items of section si are stacked in a column 500 px beside the
\* section (to the left when the section's angle exceeds pi), 120 px apart
\* and centred on the section's height
StackedVertically(si, sectionAngle, count) ==
    \A k \in 0..(count - 1) :
        /\ HasNodeId(<<"item", si, k>>)
        /\ NodeById(<<"item", si, k>>).x =
               NodeById(<<"section", si>>).x
                   + (IF sectionAngle > 60 THEN 0 - MR_horizontal ELSE MR_horizontal)
        /\ NodeById(<<"item", si, k>>).y =
               NodeById(<<"section", si>>).y - ((count - 1) * MR_vertical) \div 2
                   + k * MR_vertical

\* C20: for every Section of a drawn document, exactly one direct Item is
\* placed by the radial fan and two or more are stacked vertically, whatever
\* Subsections the Section has.
C20_ThresholdPicksPlacement ==
    Generated =>
        \A i \in DOMAIN parsed.sections :
            LET count == Len(parsed.sections[i].items)
                sectionAngle == (i - 1) * (120 \div Len(parsed.sections))
            IN  /\ count = 1 => OnRadialFan(i - 1, sectionAngle)
                /\ count >= 2 => StackedVertically(i - 1, sectionAngle, count)
                /\ Cardinality({j \in DOMAIN nodes :
                                   nodes[j].type = "item" /\ nodes[j].parentId = <<"section", i - 1>>})
                       = count

\* a drawn Section with exactly one direct Item and a Subsection
C20_Witness ==
    /\ Generated
    /\ \E i \in DOMAIN parsed.sections :
           /\ Len(parsed.sections[i].items) = 1
           /\ Len(parsed.sections[i].subsections) >= 1

\* a drawn Section with exactly two direct Items
C20_WitnessTwo ==
    /\ Generated
    /\ \E i \in DOMAIN parsed.sections : Len(parsed.sections[i].items) = 2

------------------------------------------------------------------------------
(* Placement claims on the renderer's graph *)

\* the renderer's sections, by their 0-based index
SectionIndices == {nodes[i].id[2] : i \in RendererSections}

\* the angle processData gives section si
SectionAngle(si) == si * (120 \div Cardinality(SectionIndices))

\* the indices k of the direct items of section si
ItemIndices(si) ==
    {nodes[i].id[3] : i \in {j \in DOMAIN nodes :
        nodes[j].type = "item" /\ nodes[j].parentId = <<"section", si>>}}

RECURSIVE SumItemY(_, _)
\* the sum of the y values of items 0..j of section si
SumItemY(si, j) ==
    IF j < 0 THEN 0 ELSE NodeById(<<"item", si, j>>).y + SumItemY(si, j - 1)

\* C21: the k >= 2 direct items of a section at (sx, sy) with angle a are
\* stacked in one column, at sx minus the horizontal offset when a > pi and
\* at sx plus it otherwise; consecutive items are the vertical spacing apart,
\* the first at sy - (k - 1) * spacing / 2, so that the mean of the y values
\* is sy.
C21_VerticalStackCentred ==
    (impl = MindMapRenderer /\ phase = "rendered") =>
        \A si \in SectionIndices :
            LET K == ItemIndices(si)
                k == Cardinality(K)
                sec == NodeById(<<"section", si>>)
                y(j) == NodeById(<<"item", si, j>>).y
            IN  k >= MR_bulletThreshold =>
                    /\ K = 0..(k - 1)
                    /\ \A j \in K :
                           NodeById(<<"item", si, j>>).x =
                               IF SectionAngle(si) > 60 THEN sec.x - MR_horizontal
                               ELSE sec.x + MR_horizontal
                    /\ \A j \in K : j > 0 => y(j) - y(j - 1) = MR_vertical
                    /\ 2 * y(0) = 2 * sec.y - (k - 1) * MR_vertical
                    /\ SumItemY(si, k - 1) = k * sec.y

\* a drawn section in the left half of the circle (angle above pi) with a
\* stack of at least two items
C21_Witness ==
    /\ impl = MindMapRenderer
    /\ phase = "rendered"
    /\ \E si \in SectionIndices :
           /\ SectionAngle(si) > 60
           /\ Cardinality(ItemIndices(si)) >= MR_bulletThreshold

\* the indices j of the subsections of section si
SubsectionIndices(si) ==
    {nodes[i].id[3] : i \in {j \in DOMAIN nodes :
        nodes[j].type = "subsection" /\ nodes[j].parentId = <<"section", si>>}}

\* the indices k of the items of subsection j of section si
BulletIndices(si, j) ==
    {nodes[i].id[4] : i \in {n \in DOMAIN nodes :
        nodes[n].type = "subitem" /\ nodes[n].parentId = <<"subsection", si, j>>}}

\* the angle of the index-th of count nodes spread evenly over an arc of the
\* given span that is centred on the angle centre; one node alone lies at
\* the centre
CentredAngle(centre, span, index, count) ==
    IF count = 1 THEN centre
    ELSE centre - span \div 2 + index * (span \div (count - 1))

\* C22: the m >= 1 subsections of a section are spread evenly over an arc of
\* at most 0.8 pi that is centred on the section's angle, a single one lying
\* at the section's angle; the items of a subsection are spread the same way
\* over 0.6 pi around the subsection's angle.
C22_SubsectionsCentred ==
    (impl = MindMapRenderer /\ phase = "rendered") =>
        \A si \in SectionIndices :
            LET m == Cardinality(SubsectionIndices(si))
                sec == NodeById(<<"section", si>>)
            IN  \A j \in SubsectionIndices(si) :
                    LET sub == NodeById(<<"subsection", si, j>>)
                        subAngle == CentredAngle(SectionAngle(si), 48, j, m)
                        c == Cardinality(BulletIndices(si, j))
                    IN  /\ At(sub, sec.x, sec.y, subAngle, (MR_levelSpacing * 12) \div 10)
                        /\ \A k \in BulletIndices(si, j) :
                               At(NodeById(<<"bullet", si, j, k>>), sub.x, sub.y,
                                  CentredAngle(subAngle, 36, k, c),
                                  (MR_levelSpacing * 8) \div 10)

------------------------------------------------------------------------------
(* Repeated layout *)

\* the graphs a controller that has laid out nothing before produces
FreshGraphs ==
    IF impl = MindMap
    THEN {[nodes |-> MM_calculateLayout(MM_parseMarkdown(doc).nodes),
           connections |-> MM_parseMarkdown(doc).connections] : doc \in MMDocs}
    ELSE {MR_processData(data) : data \in MRDatas}

------------------------------------------------------------------------------
(* Layout of an empty tree *)

\* C24: laying out a parse result without nodes (no Title: empty input or
\* input without headers) yields no node and no connection, in the renderer
\* and in generateLayout, and raises no error.
C24_EmptyTreeEmptyLayout ==
    (lastOp = "layout" /\ parsed.nodes = <<>>) =>
        /\ ~fault
        /\ nodes = <<>>
        /\ connections = <<>>
        /\ layout.nodes = <<>>
        /\ layout.connections = <<>>

------------------------------------------------------------------------------
(* The debounce of Mark2App: input events on the editor, the timers of the   *)
(* event loop and destroy(). Time passes in steps of TickMs.                 *)

DebounceDelay == 500
TickMs == 250
MaxEdits == 3

\* the texts an input event carries
EditTexts ==
    {[isString |-> TRUE, chars |-> c] : c \in {<<>>, DocTitle, OnlySections(1)}}

InitDebounce ==
    /\ ViewInit
    /\ impl = MindMapRenderer
    /\ NoParse

\* clearTimeout(id): the timer with that id, if still pending, is dropped
clearTimeout(timers, id) == {t \in timers : t.id # id}

\* an input event of the editor (or the clear button, or the example):
\* handleMarkdownChange(value). The listener is installed on the page's
\* #markdown-input and stays installed after destroy()
HandleMarkdownChange ==
    /\ app.edits < MaxEdits
    /\ \E value \in EditTexts :
           LET id == app.edits + 1
               kept == IF app.generateTimeout # 0
                       THEN clearTimeout(app.timers, app.generateTimeout)
                       ELSE app.timers
           IN  app' = [app EXCEPT !.currentMarkdown = value,
                                  !.timers = kept \cup {[id |-> id, value |-> value,
                                                         left |-> DebounceDelay]},
                                  !.generateTimeout = id,
                                  !.edits = id]
    /\ lastOp' = "handleMarkdownChange"
    /\ UNCHANGED <<impl, phase, scale, panX, panY, isDragging, lastPos, nodes,
                   connections, container, listeners, fault, run, runFrom, steps,
                   markdown, parsed, layout, drawn, theme, editor>>

\* TickMs pass with no timer due
Tick ==
    /\ app.timers # {}
    /\ \A t \in app.timers : t.left > 0
    /\ app' = [app EXCEPT !.timers =
                   {[id |-> t.id, value |-> t.value, left |-> Max2(0, t.left - TickMs)] :
                       t \in app.timers}]
    /\ lastOp' = "tick"
    /\ UNCHANGED <<impl, phase, scale, panX, panY, isDragging, lastPos, nodes,
                   connections, container, listeners, fault, run, runFrom, steps,
                   markdown, parsed, layout, drawn, theme, editor>>

\* a due timer runs its callback: this.generateMindMap(value)
TimerFires ==
    \E t \in app.timers :
        /\ t.left = 0
        /\ app' = [app EXCEPT !.timers = app.timers \ {t},
                              !.generated = Append(app.generated, t.value)]
        /\ markdown' = t.value
        /\ UNCHANGED <<theme, editor>>
        /\ App_generateMindMap(t.value)

\* Mark2App.destroy: the pending generation timer is cleared
AppDestroy ==
    /\ ~app.destroyed
    /\ app' = [app EXCEPT !.destroyed = TRUE,
                          !.timers = IF app.generateTimeout # 0
                                     THEN clearTimeout(app.timers, app.generateTimeout)
                                     ELSE app.timers]
    /\ lastOp' = "destroy"
    /\ UNCHANGED <<impl, phase, scale, panX, panY, isDragging, lastPos, nodes,
                   connections, container, listeners, fault, run, runFrom, steps,
                   markdown, parsed, layout, drawn, theme, editor>>

NextDebounce ==
    \/ HandleMarkdownChange
    \/ Tick
    \/ TimerFires
    \/ AppDestroy

SpecDebounce == InitDebounce /\ [][NextDebounce]_vars

\* a generation has just run
GenerationRuns == app.generated' # app.generated

\* at most one timer is pending, and a generation runs only for a timer that
\* waited the whole delay and with the text of the most recent edit
DebounceHolds ==
    /\ [](Cardinality(app.timers) <= 1)
    /\ [][GenerationRuns =>
            /\ \E t \in app.timers : t.left = 0
            /\ app.generated' = Append(app.generated, app.currentMarkdown)]_vars

\* C25: at most one generation timer is pending; a generation runs only when
\* the whole delay has passed since the last edit, and with the text of that
\* edit; after destroy() no generation runs.
C25_DebouncedGeneration ==
    /\ DebounceHolds
    /\ [][GenerationRuns => ~app.destroyed]_vars

------------------------------------------------------------------------------
(* Operations after destroy() *)

PublicOps == {"generate", "zoomIn", "zoomOut", "resetView", "fit"}

\* C26: after MindMap.destroy(), every public operation (generateMindMap,
\* zoomIn, zoomOut, resetView, fitToContent) completes without throwing.
C26_NoThrowAfterDestroy ==
    (impl = MindMap /\ phase = "destroyed" /\ lastOp \in PublicOps) => ~fault

------------------------------------------------------------------------------
(* List items of MindMap.parseMarkdown *)

\* the graph on display is the one MindMap lays out for doc
ShowsDoc(doc) ==
    /\ impl = MindMap
    /\ Produced
    /\ nodes = MM_calculateLayout(MM_parseMarkdown(doc).nodes)

\* the header lines of doc before line i
HeadersBefore(doc, i) == {j \in 1..(i - 1) : doc[j].kind = "hash"}

\* C27: in the graph MindMap builds, every unindented list item that follows
\* a header is a child of the most recent header before it; two unindented
\* items in a row are siblings.
C27_ListItemUnderHeader ==
    \A doc \in MMDocs :
        ShowsDoc(doc) =>
            \A i \in DOMAIN doc :
                (doc[i].kind = "list" /\ doc[i].n = 0 /\ HeadersBefore(doc, i) # {}) =>
                    nodes[i].parent = <<"node", SetMax(HeadersBefore(doc, i)) - 1>>

------------------------------------------------------------------------------
(* ThemeManager and LanguageManager: subscribe(), the unsubscribe function   *)
(* it returns, setTheme() / setLanguage() and notifySubscribers(). The two   *)
(* classes have the same code; the values are written as themes.             *)

\* this.themes
themes == {"light", "dark", "blue", "green", "orange"}

\* a name that is not in this.themes
UnknownTheme == "purple"

\* the callbacks a client subscribes: one returns, one throws, one calls the
\* unsubscribe function it got from subscribe()
Callbacks == {"plain", "thrower", "leaver"}

SeqRange(s) == {s[i] : i \in 1..Len(s)}

\* indexOf(callback) and splice(index, 1): the first occurrence is removed
unsubscribe(subscribers, callback) ==
    IF callback \in SeqRange(subscribers)
    THEN LET index == CHOOSE i \in 1..Len(subscribers) :
                          /\ subscribers[i] = callback
                          /\ \A j \in 1..(i - 1) : subscribers[j] # callback
         IN  [i \in 1..(Len(subscribers) - 1) |->
                 IF i < index THEN subscribers[i] ELSE subscribers[i + 1]]
    ELSE subscribers

\* this.subscribers.forEach(callback => { try { callback(newTheme,
\* previousTheme) } catch (error) { console.error(...) } }): forEach visits
\* the indices below the length it read at the start, in order, and skips an
\* index the array no longer has; the callback at an index is the one the
\* array holds when the index is reached
RECURSIVE forEachSubscriber(_, _, _, _, _)
forEachSubscriber(acc, k, len, newTheme, previousTheme) ==
    IF k > len THEN acc
    ELSE IF k > Len(acc.subscribers)
    THEN forEachSubscriber(acc, k + 1, len, newTheme, previousTheme)
    ELSE LET callback == acc.subscribers[k]
             leaves == callback = "leaver"
             after ==
                 [subscribers |-> IF leaves
                                  THEN unsubscribe(acc.subscribers, callback)
                                  ELSE acc.subscribers,
                  left |-> IF leaves THEN acc.left \cup {callback} ELSE acc.left,
                  calls |-> Append(acc.calls,
                                   [callback |-> callback, newValue |-> newTheme,
                                    previousValue |-> previousTheme]),
                  errors |-> acc.errors + (IF callback = "thrower" THEN 1 ELSE 0)]
         IN  forEachSubscriber(after, k + 1, len, newTheme, previousTheme)

notifySubscribers(t, newTheme, previousTheme) ==
    forEachSubscriber([subscribers |-> t.subscribers, left |-> t.left,
                       calls |-> <<>>, errors |-> 0],
                      1, Len(t.subscribers), newTheme, previousTheme)

\* the mind map and the application are not touched by the theme manager
pageVars == <<impl, phase, scale, panX, panY, isDragging, lastPos, nodes,
              connections, container, listeners, fault, run, runFrom, steps,
              markdown, parsed, layout, drawn, app>>

\* subscribe(callback) with a function: pushed at the end
Subscribe ==
    /\ \E callback \in Callbacks \ SeqRange(theme.subscribers) :
           theme' = [theme EXCEPT !.subscribers = Append(@, callback),
                                  !.left = @ \ {callback}]
    /\ lastOp' = "subscribe"
    /\ UNCHANGED pageVars
    /\ UNCHANGED editor

\* a client calls the function subscribe() returned to it
Unsubscribe ==
    /\ \E callback \in SeqRange(theme.subscribers) \cup theme.left :
           theme' = [theme EXCEPT !.subscribers = unsubscribe(@, callback),
                                  !.left = @ \cup {callback}]
    /\ lastOp' = "unsubscribe"
    /\ UNCHANGED pageVars
    /\ UNCHANGED editor

\* setTheme(themeName) / setLanguage(langCode)
SetTheme ==
    /\ \E themeName \in themes \cup {UnknownTheme} :
           IF themeName \notin themes
           THEN theme' = [theme EXCEPT !.accepted = FALSE,
                                       !.atStart = theme.subscribers,
                                       !.leftAtStart = theme.left,
                                       !.before = theme.currentTheme,
                                       !.calls = <<>>,
                                       !.errors = 0]
           ELSE LET previousTheme == theme.currentTheme
                    done == notifySubscribers(theme, themeName, previousTheme)
                IN  theme' = [currentTheme |-> themeName,
                              subscribers |-> done.subscribers,
                              left |-> done.left,
                              atStart |-> theme.subscribers,
                              leftAtStart |-> theme.left,
                              before |-> previousTheme,
                              calls |-> done.calls,
                              accepted |-> TRUE,
                              errors |-> done.errors]
    /\ lastOp' = "setTheme"
    /\ UNCHANGED pageVars
    /\ UNCHANGED editor

InitTheme ==
    /\ ViewInit
    /\ impl = MindMapRenderer
    /\ NoParse

NextTheme ==
    \/ Subscribe
    \/ Unsubscribe
    \/ SetTheme

SpecTheme == InitTheme /\ [][NextTheme]_vars

\* how many times the last call invoked a callback
TimesNotified(callback) ==
    Cardinality({i \in 1..Len(theme.calls) : theme.calls[i].callback = callback})

\* C28: after setTheme / setLanguage with a known name, every callback that
\* was subscribed when the call started has been invoked exactly once, with
\* (newValue, previousValue), also when another subscriber throws or calls
\* its own unsubscribe function during the notification, and no callback
\* that had unsubscribed before the call has been invoked; after a call with
\* an unknown name nobody has been invoked and the value is the one before
C28_SubscribersNotifiedOnce ==
    lastOp = "setTheme" =>
        IF theme.accepted
        THEN /\ \A callback \in SeqRange(theme.atStart) :
                    TimesNotified(callback) = 1
             /\ \A i \in 1..Len(theme.calls) :
                    /\ theme.calls[i].newValue = theme.currentTheme
                    /\ theme.calls[i].previousValue = theme.before
                    /\ theme.calls[i].callback \notin theme.leftAtStart
        ELSE /\ theme.calls = <<>>
             /\ theme.currentTheme = theme.before

------------------------------------------------------------------------------
(* TextEditor and the EditorPanel that hosts it: the text, the dirty flag,   *)
(* the stored content, the timers they set and destroy(). Time passes in     *)
(* steps of EditorTickMs.                                                    *)

AutoSaveDelay == 2000
FlashDelay == 1000
ErrorResetDelay == 3000
HideDelay == 300
AnimateInDelay == 500
PanelErrorDelay == 3000
EditorTickMs == 500
MaxTimers == 2

\* the texts typed, set or found in the storage
EditorTexts == {"", "a"}

\* the example EditorPanel.loadExample() sets
ExampleText == "example"

\* setTimeout(callback, delay): a new timer with a fresh id
setTimeout(e, kind, delay) ==
    [e EXCEPT !.timers = @ \cup {[id |-> e.nextId + 1, kind |-> kind, left |-> delay]},
              !.nextId = @ + 1]

\* TextEditor.triggerAutoSave: the pending auto-save is replaced
TE_triggerAutoSave(e) ==
    LET cleared == IF e.autoSaveTimeout # 0
                   THEN [e EXCEPT !.timers = clearTimeout(@, e.autoSaveTimeout)]
                   ELSE e
    IN  [setTimeout(cleared, "autoSave", AutoSaveDelay) EXCEPT
             !.autoSaveTimeout = e.nextId + 1]

\* TextEditor.showSavedIndicator: the flash is taken off one second later
TE_showSavedIndicator(e) ==
    IF ~e.statusElement THEN e ELSE setTimeout(e, "flash", FlashDelay)

\* TextEditor.showError: the status text is restored three seconds later
TE_showError(e) ==
    IF ~e.statusElement THEN e ELSE setTimeout(e, "errorReset", ErrorResetDelay)

\* TextEditor.save: writes is FALSE when localStorage.setItem throws
TE_save(e, writes) ==
    IF writes
    THEN TE_showSavedIndicator(
             [e EXCEPT !.storage = [has |-> TRUE, text |-> e.value],
                       !.synced = TRUE,
                       !.lastSavedValue = e.value,
                       !.isDirty = FALSE])
    ELSE TE_showError(e)

\* a setValue that leaves the dirty flag as it was
TE_setValue_keepingFlag(e, value) == [e EXCEPT !.value = value]

\* TextEditor.setValue
TE_setValue(e, value) ==
    [e EXCEPT !.value = value, !.isDirty = (value # e.lastSavedValue)]

\* TextEditor.handleChange: the change handler of the text input
TE_handleChange(e, value) ==
    LET changed == [e EXCEPT !.value = value, !.isDirty = (value # e.lastSavedValue)]
    IN  IF e.autoSave THEN TE_triggerAutoSave(changed) ELSE changed

\* TextEditor.setupAutoSave: reads is FALSE when localStorage.getItem throws;
\* the stored text is taken when it is not empty and the editor is
\* (saved && !this.value)
TE_setupAutoSave(e, reads) ==
    IF reads /\ e.storage.has /\ e.storage.text # "" /\ e.value = ""
    THEN [TE_setValue(e, e.storage.text) EXCEPT !.lastSavedValue = e.storage.text,
                                                !.isDirty = FALSE,
                                                !.synced = TRUE]
    ELSE e

\* TextEditor.render
TE_render(e, reads) ==
    LET made == [e EXCEPT !.phase = "rendered", !.statusElement = e.showStats]
    IN  IF e.autoSave THEN TE_setupAutoSave(made, reads) ELSE made

\* TextEditor.destroy: the auto-save timer is cleared, a dirty text is saved,
\* the elements are set to null
TE_destroy(e, writes) ==
    LET cleared == IF e.autoSaveTimeout # 0
                   THEN [e EXCEPT !.timers = clearTimeout(@, e.autoSaveTimeout)]
                   ELSE e
        saved == IF e.autoSave /\ e.isDirty THEN TE_save(cleared, writes) ELSE cleared
    IN  [saved EXCEPT !.statusElement = FALSE, !.phase = "destroyed"]

\* EditorPanel.render: the element, the TextEditor (no value given) and its
\* render(), then loadExample()
EP_render(e, reads) ==
    [TE_setValue(TE_render(e, reads), ExampleText) EXCEPT !.element = TRUE]

\* EditorPanel.destroy
EP_destroy(e, writes) ==
    LET gone == IF e.phase = "rendered" THEN TE_destroy(e, writes) ELSE e
    IN  [gone EXCEPT !.element = FALSE, !.phase = "destroyed"]

\* a callback that reads a property of null raises a TypeError
TypeError(e) == [e EXCEPT !.fault = TRUE]

\* the callbacks of the timers
TimerCallback(e, kind, writes) ==
    CASE kind = "autoSave" -> TE_save(e, writes)
      [] kind = "flash" -> IF e.statusElement THEN e ELSE TypeError(e)
      [] kind = "errorReset" -> e
      [] kind = "hide" -> IF e.isVisible \/ e.element THEN e ELSE TypeError(e)
      [] kind = "animateIn" -> IF e.element THEN e ELSE TypeError(e)
      [] kind = "panelError" -> e

\* nothing but the editor changes
EditorOp(op) ==
    /\ lastOp' = op
    /\ UNCHANGED pageVars
    /\ UNCHANGED theme

\* the TextEditor exists and is not destroyed
EditorLive ==
    \/ editor.phase = "rendered"
    \/ ~editor.panel /\ editor.phase = "new"

EditorRender ==
    /\ editor.phase = "new"
    /\ \E reads \in BOOLEAN :
           editor' = IF editor.panel THEN EP_render(editor, reads)
                                     ELSE TE_render(editor, reads)
    /\ EditorOp("editorRender")

\* an input event of the text input
EditorHandleChange ==
    /\ editor.phase = "rendered"
    /\ editor.nextId < MaxTimers
    /\ \E value \in EditorTexts : editor' = TE_handleChange(editor, value)
    /\ EditorOp("handleChange")

\* setValue(value), loadExample() and clear() = setValue('')
EditorSetValue ==
    /\ EditorLive
    /\ \E value \in EditorTexts \cup (IF editor.panel THEN {ExampleText} ELSE {}) :
           /\ editor' = TE_setValue(editor, value)
           /\ EditorOp(IF value = "" THEN "clear" ELSE "setValue")

\* Ctrl+S, or a blur of the text input with a dirty text and auto-save on
EditorSave ==
    /\ EditorLive
    /\ editor.nextId < MaxTimers
    /\ \E writes \in BOOLEAN :
           /\ editor' = TE_save(editor, writes)
           /\ EditorOp(IF writes THEN "save" ELSE "saveFailed")

\* EditorPanel.hide
PanelHide ==
    /\ editor.panel
    /\ editor.isVisible
    /\ editor.nextId < MaxTimers
    /\ editor' = IF editor.element
                 THEN setTimeout([editor EXCEPT !.isVisible = FALSE], "hide", HideDelay)
                 ELSE [editor EXCEPT !.isVisible = FALSE]
    /\ EditorOp("hide")

\* EditorPanel.show
PanelShow ==
    /\ editor.panel
    /\ ~editor.isVisible
    /\ editor' = [editor EXCEPT !.isVisible = TRUE]
    /\ EditorOp("show")

\* EditorPanel.animateIn
PanelAnimateIn ==
    /\ editor.panel
    /\ editor.element
    /\ editor.nextId < MaxTimers
    /\ editor' = setTimeout(editor, "animateIn", AnimateInDelay)
    /\ EditorOp("animateIn")

\* EditorPanel.showError
PanelShowError ==
    /\ editor.panel
    /\ editor.nextId < MaxTimers
    /\ editor' = setTimeout(IF editor.phase = "rendered" THEN TE_showError(editor)
                                                         ELSE editor,
                            "panelError", PanelErrorDelay)
    /\ EditorOp("showError")

\* EditorPanel.destroy, or TextEditor.destroy of an editor without a panel
EditorDestroy ==
    /\ editor.phase # "destroyed"
    /\ \E writes \in BOOLEAN :
           editor' = IF editor.panel THEN EP_destroy(editor, writes)
                                     ELSE TE_destroy(editor, writes)
    /\ EditorOp("editorDestroy")

\* EditorTickMs pass with no timer due
EditorTick ==
    /\ editor.timers # {}
    /\ \A t \in editor.timers : t.left > 0
    /\ editor' = [editor EXCEPT !.timers =
                      {[id |-> t.id, kind |-> t.kind,
                        left |-> Max2(0, t.left - EditorTickMs)] : t \in editor.timers}]
    /\ EditorOp("tick")

\* a due timer runs its callback
EditorTimerFires ==
    /\ \E t \in editor.timers :
           /\ t.left = 0
           /\ \E writes \in BOOLEAN :
                  editor' = TimerCallback([editor EXCEPT !.timers = @ \ {t}],
                                          t.kind, writes)
           /\ EditorOp(t.kind)

\* the editor the page builds, or a TextEditor on its own with a value
InitEditor ==
    /\ CoreInit
    /\ impl = MindMapRenderer
    /\ container = <<MR_centerX * 2, MR_centerY * 2>>
    /\ NoParse
    /\ app = AppNew
    /\ theme = ThemeNew
    /\ \E panel, autoSave, showStats \in BOOLEAN :
       \E item \in {NoItem} \cup {[has |-> TRUE, text |-> t] : t \in EditorTexts} :
       \E value \in IF panel THEN {""} ELSE EditorTexts :
           editor = [EditorNew EXCEPT !.panel = panel, !.autoSave = autoSave,
                                      !.showStats = showStats, !.storage = item,
                                      !.value = value, !.lastSavedValue = value]

NextEditor ==
    \/ EditorRender
    \/ EditorHandleChange
    \/ EditorSetValue
    \/ EditorSave
    \/ PanelHide
    \/ PanelShow
    \/ PanelAnimateIn
    \/ PanelShowError
    \/ EditorDestroy
    \/ EditorTick
    \/ EditorTimerFires

SpecEditor == InitEditor /\ [][NextEditor]_vars

\* Mark2App.handleBeforeUnload asks for confirmation
BeforeUnloadFires ==
    /\ editor.panel
    /\ editor.phase = "rendered"
    /\ editor.isDirty

\* C29: after every operation of the TextEditor (handleChange, setValue,
\* clear, save with a storage write that succeeds or throws, loading the
\* auto-saved content) isDirty is TRUE exactly when value differs from
\* lastSavedValue, and lastSavedValue is the text of the last successful
\* write or load; so the unload guard of a live editor fires exactly when the
\* current text differs from the last successfully stored text
C29_DirtyIffUnsaved ==
    /\ editor.isDirty = (editor.value # editor.lastSavedValue)
    /\ editor.synced => editor.lastSavedValue = editor.storage.text
    /\ (editor.panel /\ editor.phase = "rendered" /\ editor.synced) =>
           (BeforeUnloadFires <=> editor.value # editor.storage.text)

\* a save whose storage write threw has left a changed text dirty
C29_Witness ==
    /\ lastOp = "saveFailed"
    /\ editor.synced
    /\ editor.isDirty
    /\ editor.value # editor.storage.text

\* C30: in every interleaving of destroy() with the timers set before it or
\* by it (auto-save, saved-indicator flash, error reset, hide, animateIn,
\* showError), a timer is cancelled or its callback runs without reading a
\* property of an element destroy() has set to null: no callback has raised
\* an error once the editor is destroyed
C30_NoFaultAfterDestroy ==
    editor.phase = "destroyed" => ~editor.fault

====
